---- MODULE Spec2Model ----
(***************************************************************************)
(* A model of the settings store of jmp/module-settings.                   *)
(*                                                                         *)
(* The repository holds two builds of the same interface:                  *)
(*   - the bounded variant, src/settings.c, whose pairs hold fixed-size    *)
(*     key and value arrays (definitions prefixed B_),                     *)
(*   - the unbounded variant, src/unnamed/part_001 lines 517-919, whose    *)
(*     pairs hold heap-allocated key and value buffers (prefixed U_).      *)
(* Functions whose text is the same in both files are modelled once and    *)
(* take the variant as a parameter where a callee differs.                 *)
(*                                                                         *)
(* A C string is a sequence of one-character strings; the null char        *)
(* pointer is the value NULL, which is no string.                          *)
(***************************************************************************)
EXTENDS Integers, Sequences, FiniteSets, TLC

\* ------------------------------------------------------------------------
\* Compile-time limits.  The sources set them under #ifndef (128, 128 and
\* 1024), so a build may choose them; the model uses a small build that
\* keeps the proportion of the defaults: a line buffer holds the longest
\* "key = value\n" a store can save, and a value holds every int.
\* ------------------------------------------------------------------------
CONFIG_KEY_LENGTH == 3

CONFIG_VALUE_LENGTH == 12

CONFIG_LINE_LENGTH == 18

\* Size of the first line buffer of get_line and of each growth step
\* (<stdio.h>), scaled like the limits above.
BUFSIZ == 4

\* Number of struct Pair blocks the heap can hold; malloc returns NULL when
\* they are all in use.
MaxPairs == 3

\* ------------------------------------------------------------------------
\* Pointers
\* ------------------------------------------------------------------------
\* The null char pointer.
NULL == <<"NULL">>

\* The null struct Pair pointer; pair addresses are 1..MaxPairs.
NIL == 0

Addr == 1..MaxPairs

\* A struct Pair block that is not allocated.
FREE == [free |-> TRUE]

\* Content of a buffer that was allocated and never written.
UNINIT == <<"?">>

Min(a, b) == IF a < b THEN a ELSE b

Take(s, n) == SubSeq(s, 1, Min(n, Len(s)))

Drop(s, n) == SubSeq(s, n + 1, Len(s))

strlen(s) == Len(s)

\* <ctype.h> isspace in the "C" locale (the vertical tab has no TLA+
\* escape and is left out of the alphabet).
isspace(c) == c \in {" ", "\t", "\n", "\f", "\r"}

\* ------------------------------------------------------------------------
\* trim
\* ------------------------------------------------------------------------
\* while (isspace(str[begin])) ++begin;   (str[strlen] is the NUL, no space)
RECURSIVE TrimBegin(_, _)
TrimBegin(str, begin) ==
    IF begin < Len(str) /\ isspace(str[begin + 1])
    THEN TrimBegin(str, begin + 1)
    ELSE begin

\* while ((end >= begin) && isspace(str[end])) --end;
RECURSIVE TrimEnd(_, _, _)
TrimEnd(str, begin, end) ==
    IF end >= begin /\ isspace(str[end + 1])
    THEN TrimEnd(str, begin, end - 1)
    ELSE end

\* The marker of an execution that the operating system stopped (a fault
\* on an access outside every object).
CRASH == <<"CRASH">>

\* trim(str): the set of results the call can have.  For a non-empty string
\* the loops stay inside the string (end >= begin - 1 >= 0, no wrap) and
\* the result is the text between begin and end.  For the empty string
\* size_t end = strlen(str) - 1 wraps to SIZE_MAX: the second loop reads
\* str[SIZE_MAX], outside the object, and the copy loop runs for i <= end
\* over the whole address space.  That is undefined behaviour; a build
\* either faults or (when the copy loop is compiled to a move of
\* end - begin + 1 = 0 bytes) leaves the string empty.
trim(str) ==
    IF str = NULL THEN {NULL}
    ELSE IF strlen(str) = 0 THEN {CRASH, <<>>}
    ELSE LET begin == TrimBegin(str, 0)
             end == TrimEnd(str, begin, strlen(str) - 1)
         IN  {SubSeq(str, begin + 1, end + 1)}

\* ------------------------------------------------------------------------
\* The allocator, as the test harness drives it (src/unnamed/part_000):
\* malloc and realloc count their calls and fail on chosen calls.
\*   al.mfail, al.rfail : the call numbers (from 0) on which malloc and
\*                        realloc return NULL
\*   al.mc, al.rc       : calls made so far
\*   al.failed          : some allocation of this operation returned NULL
\* ------------------------------------------------------------------------
NewAlloc(mfail, rfail) ==
    [mfail |-> mfail, rfail |-> rfail, mc |-> 0, rc |-> 0, failed |-> FALSE]

\* malloc of a block that is not a struct Pair (a line buffer).
memory_malloc(al) ==
    LET ok == al.mc \notin al.mfail
    IN  [ok |-> ok,
         al |-> [al EXCEPT !.mc = @ + 1, !.failed = @ \/ ~ok]]

\* malloc(sizeof(struct Pair)): the lowest free pair block, NIL when the
\* call is made to fail or no block is left.
malloc_pair(heap, al) ==
    LET free == {a \in Addr : heap[a] = FREE}
        ok == al.mc \notin al.mfail /\ free # {}
        p == IF ok THEN CHOOSE a \in free : \A b \in free : a <= b ELSE NIL
    IN  [p |-> p,
         al |-> [al EXCEPT !.mc = @ + 1, !.failed = @ \/ ~ok]]

memory_realloc(al) ==
    LET ok == al.rc \notin al.rfail
    IN  [ok |-> ok,
         al |-> [al EXCEPT !.rc = @ + 1, !.failed = @ \/ ~ok]]

\* ------------------------------------------------------------------------
\* The list: m = [heap, first, last] is the memory a Settings* refers to.
\* ------------------------------------------------------------------------
\* keys_match of the bounded variant: strncmp over CONFIG_KEY_LENGTH bytes.
B_keys_match(key1, key2) ==
    IF key1 = NULL \/ key2 = NULL THEN FALSE
    ELSE Take(key1, CONFIG_KEY_LENGTH) = Take(key2, CONFIG_KEY_LENGTH)

\* keys_match of the unbounded variant: strcmp.
U_keys_match(key1, key2) ==
    IF key1 = NULL \/ key2 = NULL THEN FALSE
    ELSE key1 = key2

\* Mutant of keys_match: an empty key matches no key.
M_keys_match(v, key1, key2) ==
    /\ key1 # <<>>
    /\ key2 # <<>>
    /\ IF v = "bounded" THEN B_keys_match(key1, key2) ELSE U_keys_match(key1, key2)

keys_match(v, key1, key2) ==
    IF v = "bounded" THEN B_keys_match(key1, key2) ELSE U_keys_match(key1, key2)

\* Mutant of FindFrom: the search gives up after the first pair.
M_FindFrom(v, heap, pair, key) ==
    IF pair = NIL THEN NIL
    ELSE IF keys_match(v, heap[pair].key, key) THEN pair
    ELSE NIL

RECURSIVE FindFrom(_, _, _, _)
FindFrom(v, heap, pair, key) ==
    IF pair = NIL THEN NIL
    ELSE IF keys_match(v, heap[pair].key, key) THEN pair
    ELSE FindFrom(v, heap, heap[pair].next, key)

\* find_pair(settings, key); s is FALSE for a null settings pointer.
find_pair(v, m, s, key) ==
    IF s THEN FindFrom(v, m.heap, m.first, key) ELSE NIL

\* Mutant of AppendPair: the new pair is linked before the first one.
M_AppendPair(m, heap, pair) ==
    IF m.first = NIL
    THEN [heap |-> heap, first |-> pair, last |-> pair]
    ELSE [heap |-> [heap EXCEPT ![m.first].prev = pair, ![pair].next = m.first],
          first |-> pair,
          last |-> m.last]

\* The tail of settings_set_string that links a new pair at the end.
AppendPair(m, heap, pair) ==
    IF m.last = NIL
    THEN [heap |-> heap,
          first |-> IF m.first = NIL THEN pair ELSE m.first,
          last |-> pair]
    ELSE [heap |-> [heap EXCEPT ![m.last].next = pair, ![pair].prev = m.last],
          first |-> IF m.first = NIL THEN pair ELSE m.first,
          last |-> pair]

\* ---- bounded variant ---------------------------------------------------
\* strncpy(dst, src, n); dst[n - 1] = '\0': the string left in dst.
B_strncpy_term(src, n) == Take(src, n - 1)

B_copy_pair(src_key, src_value) ==
    [key |-> B_strncpy_term(src_key, CONFIG_KEY_LENGTH),
     value |-> B_strncpy_term(src_value, CONFIG_VALUE_LENGTH)]

B_create_pair(heap, key, value, al) ==
    IF key # NULL /\ value # NULL
    THEN LET r == malloc_pair(heap, al)
         IN  IF r.p # NIL
             THEN LET c == B_copy_pair(key, value)
                  IN  [pair |-> r.p,
                       heap |-> [heap EXCEPT ![r.p] =
                                    [key |-> c.key, value |-> c.value,
                                     next |-> NIL, prev |-> NIL]],
                       al |-> r.al]
             ELSE [pair |-> NIL, heap |-> heap, al |-> r.al]
    ELSE [pair |-> NIL, heap |-> heap, al |-> al]

\* Mutant of B_settings_set_string: the lengths are not checked.
M_B_settings_set_string(m, s, key, value, al) ==
    IF ~s \/ key = NULL \/ value = NULL
    THEN [ret |-> 0, m |-> m, al |-> al]
    ELSE LET pair == find_pair("bounded", m, s, key)
         IN  IF pair # NIL
             THEN LET c == B_copy_pair(key, value)
                  IN  [ret |-> 1,
                       m |-> [m EXCEPT !.heap[pair].key = c.key,
                                       !.heap[pair].value = c.value],
                       al |-> al]
             ELSE LET r == B_create_pair(m.heap, key, value, al)
                  IN  IF r.pair # NIL
                      THEN [ret |-> 1, m |-> AppendPair(m, r.heap, r.pair), al |-> r.al]
                      ELSE [ret |-> 0, m |-> m, al |-> r.al]

B_settings_set_string(m, s, key, value, al) ==
    IF ~s \/ key = NULL \/ value = NULL
    THEN [ret |-> 0, m |-> m, al |-> al]
    ELSE IF strlen(key) >= CONFIG_KEY_LENGTH \/ strlen(value) >= CONFIG_VALUE_LENGTH
    THEN [ret |-> 0, m |-> m, al |-> al]
    ELSE LET pair == find_pair("bounded", m, s, key)
         IN  IF pair # NIL
             THEN LET c == B_copy_pair(key, value)
                  IN  [ret |-> 1,
                       m |-> [m EXCEPT !.heap[pair].key = c.key,
                                       !.heap[pair].value = c.value],
                       al |-> al]
             ELSE LET r == B_create_pair(m.heap, key, value, al)
                  IN  IF r.pair # NIL
                      THEN [ret |-> 1, m |-> AppendPair(m, r.heap, r.pair), al |-> r.al]
                      ELSE [ret |-> 0, m |-> m, al |-> r.al]

\* ---- unbounded variant -------------------------------------------------
\* resize(array, size): the new pointer, as the string it points to.  A
\* failed realloc returns NULL and leaves the old block allocated.
U_resize(array, size, al) ==
    LET sz == size + 1
    IN  IF array = NULL \/ strlen(array) <= sz
        THEN LET r == memory_realloc(al)
             IN  IF r.ok
                 THEN [array |-> IF array = NULL THEN UNINIT ELSE Take(array, sz - 1),
                       al |-> r.al]
                 ELSE [array |-> NULL, al |-> r.al]
        ELSE [array |-> array, al |-> al]

U_copy_pair(dst_key, dst_val, src_key, src_val) ==
    IF dst_key = NULL \/ dst_val = NULL
    THEN [ret |-> 0, key |-> dst_key, value |-> dst_val]
    ELSE [ret |-> 1, key |-> src_key, value |-> src_val]

U_create_pair(heap, key, value, al) ==
    IF key # NULL /\ value # NULL
    THEN LET r == malloc_pair(heap, al)
         IN  IF r.p # NIL
             THEN LET k == U_resize(NULL, strlen(key), r.al)
                      w == U_resize(NULL, strlen(value), k.al)
                      c == U_copy_pair(k.array, w.array, key, value)
                  IN  IF c.ret = 1
                      THEN [pair |-> r.p,
                            heap |-> [heap EXCEPT ![r.p] =
                                         [key |-> c.key, value |-> c.value,
                                          next |-> NIL, prev |-> NIL]],
                            al |-> w.al]
                      ELSE \* free_pair(pair); pair = NULL
                           [pair |-> NIL, heap |-> heap, al |-> w.al]
             ELSE [pair |-> NIL, heap |-> heap, al |-> r.al]
    ELSE [pair |-> NIL, heap |-> heap, al |-> al]

\* Mutant of U_settings_set_string: the value is not checked for NULL.
M_U_settings_set_string(m, s, key, value, al) ==
    IF ~s \/ key = NULL
    THEN [ret |-> 0, m |-> m, al |-> al]
    ELSE LET pair == find_pair("unbounded", m, s, key)
         IN  IF pair # NIL
             THEN LET k == U_resize(m.heap[pair].key, strlen(key), al)
                      w == U_resize(m.heap[pair].value, strlen(value), k.al)
                      c == U_copy_pair(k.array, w.array, key, value)
                  IN  [ret |-> c.ret,
                       m |-> [m EXCEPT !.heap[pair].key = c.key,
                                       !.heap[pair].value = c.value],
                       al |-> w.al]
             ELSE LET r == U_create_pair(m.heap, key, value, al)
                  IN  IF r.pair # NIL
                      THEN [ret |-> 1, m |-> AppendPair(m, r.heap, r.pair), al |-> r.al]
                      ELSE [ret |-> 0, m |-> m, al |-> r.al]

U_settings_set_string(m, s, key, value, al) ==
    IF ~s \/ key = NULL \/ value = NULL
    THEN [ret |-> 0, m |-> m, al |-> al]
    ELSE LET pair == find_pair("unbounded", m, s, key)
         IN  IF pair # NIL
             THEN LET k == U_resize(m.heap[pair].key, strlen(key), al)
                      w == U_resize(m.heap[pair].value, strlen(value), k.al)
                      c == U_copy_pair(k.array, w.array, key, value)
                  IN  [ret |-> c.ret,
                       m |-> [m EXCEPT !.heap[pair].key = c.key,
                                       !.heap[pair].value = c.value],
                       al |-> w.al]
             ELSE LET r == U_create_pair(m.heap, key, value, al)
                  IN  IF r.pair # NIL
                      THEN [ret |-> 1, m |-> AppendPair(m, r.heap, r.pair), al |-> r.al]
                      ELSE [ret |-> 0, m |-> m, al |-> r.al]

settings_set_string(v, m, s, key, value, al) ==
    IF v = "bounded"
    THEN B_settings_set_string(m, s, key, value, al)
    ELSE U_settings_set_string(m, s, key, value, al)

\* ---- both variants -----------------------------------------------------
\* Mutant of settings_get_string: a key that is not found is answered with
\* the value of the first pair.
M_settings_get_string(v, m, s, key, default_value) ==
    LET pair == find_pair(v, m, s, key)
    IN  IF pair # NIL THEN m.heap[pair].value
        ELSE IF s /\ m.first # NIL THEN m.heap[m.first].value
        ELSE default_value

settings_get_string(v, m, s, key, default_value) ==
    LET pair == find_pair(v, m, s, key)
    IN  IF pair # NIL THEN m.heap[pair].value ELSE default_value

\* Mutant of Unlink: settings->last is not moved when the last pair goes.
M_Unlink(m, pair) ==
    LET nx == m.heap[pair].next
        pv == m.heap[pair].prev
        h1 == IF nx # NIL THEN [m.heap EXCEPT ![nx].prev = pv] ELSE m.heap
        h2 == IF pv # NIL THEN [h1 EXCEPT ![pv].next = nx] ELSE h1
        f2 == IF pv # NIL THEN m.first ELSE nx
    IN  [heap |-> [h2 EXCEPT ![pair] = FREE], first |-> f2, last |-> m.last]

\* Mutant of Unlink: the pair after the removed one keeps its prev.
M_UnlinkKeepPrev(m, pair) ==
    LET nx == m.heap[pair].next
        pv == m.heap[pair].prev
        l1 == IF nx # NIL THEN m.last ELSE pv
        h2 == IF pv # NIL THEN [m.heap EXCEPT ![pv].next = nx] ELSE m.heap
        f2 == IF pv # NIL THEN m.first ELSE nx
    IN  [heap |-> [h2 EXCEPT ![pair] = FREE], first |-> f2, last |-> l1]

\* The relinking and the free of settings_remove, for the pair found.
Unlink(m, pair) ==
    LET nx == m.heap[pair].next
        pv == m.heap[pair].prev
        h1 == IF nx # NIL THEN [m.heap EXCEPT ![nx].prev = pv] ELSE m.heap
        l1 == IF nx # NIL THEN m.last ELSE pv
        h2 == IF pv # NIL THEN [h1 EXCEPT ![pv].next = nx] ELSE h1
        f2 == IF pv # NIL THEN m.first ELSE nx
    IN  [heap |-> [h2 EXCEPT ![pair] = FREE], first |-> f2, last |-> l1]

\* Mutant of settings_remove: success is reported for a key not found.
M_settings_remove(v, m, s, key) ==
    LET pair == find_pair(v, m, s, key)
    IN  IF pair # NIL
        THEN [ret |-> 1, m |-> Unlink(m, pair)]
        ELSE [ret |-> 1, m |-> m]

settings_remove(v, m, s, key) ==
    LET pair == find_pair(v, m, s, key)
    IN  IF pair # NIL
        THEN [ret |-> 1, m |-> Unlink(m, pair)]
        ELSE [ret |-> 0, m |-> m]

\* The pairs of the list in order, as the loops over pair->next visit them
\* (at most MaxPairs of them).
RECURSIVE Walk(_, _, _)
Walk(h, pair, fuel) ==
    IF pair = NIL \/ fuel = 0 THEN <<>>
    ELSE <<pair>> \o Walk(h, h[pair].next, fuel - 1)

Chain(m) == Walk(m.heap, m.first, MaxPairs)

\* The keys and values of the list in order.
Pairs(m) ==
    LET c == Chain(m)
    IN  [i \in 1..Len(c) |-> [key |-> m.heap[c[i]].key, value |-> m.heap[c[i]].value]]

\* ------------------------------------------------------------------------
\* The blocks of memory: the Settings object, a struct Pair at an address
\* and, in the unbounded variant, the buffers that its key and its value
\* point to.
\* ------------------------------------------------------------------------
Block(kind, at) == [kind |-> kind, at |-> at]

SettingsBlock == Block("settings", NIL)

\* The blocks that were allocated for the pair at p (create_pair).
PairBlocks(v, h, p) ==
    {Block("pair", p)}
        \cup (IF v = "unbounded" /\ h[p].key # NULL THEN {Block("key", p)} ELSE {})
        \cup (IF v = "unbounded" /\ h[p].value # NULL THEN {Block("value", p)} ELSE {})

\* The blocks the store holds: its object and the blocks of its pairs.
Live(v, m) ==
    {SettingsBlock}
        \cup UNION {PairBlocks(v, m.heap, Chain(m)[i]) : i \in 1..Len(Chain(m))}

\* free_pair(pair): the blocks it gives to memory_free, in order; a NULL
\* pointer given to memory_free releases nothing.
U_free_pair(h, pair) ==
    IF pair = NIL THEN <<>>
    ELSE (IF h[pair].key # NULL THEN <<Block("key", pair)>> ELSE <<>>)
             \o (IF h[pair].value # NULL THEN <<Block("value", pair)>> ELSE <<>>)
             \o <<Block("pair", pair)>>

\* The loop of settings_free from `pair` on: the blocks given to
\* memory_free, in order.
RECURSIVE FreeFrom(_, _, _)
FreeFrom(v, h, pair) ==
    IF pair = NIL THEN <<>>
    ELSE (IF v = "bounded" THEN <<Block("pair", pair)>> ELSE U_free_pair(h, pair))
             \o FreeFrom(v, h, h[pair].next)

\* settings_free(settings): the blocks released and the memory afterwards;
\* first and last are left as they were.
settings_free(v, m, s) ==
    IF ~s THEN [freed |-> <<>>, m |-> m]
    ELSE LET freed == FreeFrom(v, m.heap, m.first)
         IN  [freed |-> freed,
              m |-> [m EXCEPT !.heap =
                        [a \in Addr |-> IF \E i \in 1..Len(freed) : freed[i] = Block("pair", a)
                                        THEN FREE ELSE m.heap[a]]]]

\* The blocks that settings_remove gives to memory_free.
RemoveFrees(v, m, s, key) ==
    LET pair == find_pair(v, m, s, key)
    IN  IF pair # NIL THEN <<Block("pair", pair)>> ELSE <<>>

\* Position in the list of the pair find_pair returns, 0 when it returns NULL.
PosOf(v, m, s, key) ==
    LET pair == find_pair(v, m, s, key)
        c == Chain(m)
    IN  IF pair = NIL THEN 0 ELSE CHOOSE i \in 1..Len(c) : c[i] = pair
\* ------------------------------------------------------------------------
\* Typed setters: the text snprintf leaves in a buffer of n bytes.
\* ------------------------------------------------------------------------
Digit(d) == <<"0", "1", "2", "3", "4", "5", "6", "7", "8", "9">>[d + 1]

RECURSIVE DigitsOfNat(_)
DigitsOfNat(n) ==
    IF n < 10 THEN <<Digit(n)>> ELSE DigitsOfNat(n \div 10) \o <<Digit(n % 10)>>

\* The digits of a negative number, without negating it (INT_MIN has no
\* negation in int).
RECURSIVE DigitsOfNeg(_)
DigitsOfNeg(n) ==
    LET d == (10 - (n % 10)) % 10
        q == (n + d) \div 10
    IN  IF q = 0 THEN <<Digit(d)>> ELSE DigitsOfNeg(q) \o <<Digit(d)>>

\* printf("%d", value)
FormatInt(value) ==
    IF value < 0 THEN <<"-">> \o DigitsOfNeg(value) ELSE DigitsOfNat(value)

\* printf("%f", value) for a float given in quarters (value = q / 4, all
\* of them exact in binary): sign, integer part, '.', six decimals.
FormatFloat(q) ==
    LET a == IF q < 0 THEN 0 - q ELSE q
        frac == <<<<"0", "0">>, <<"2", "5">>, <<"5", "0">>, <<"7", "5">>>>[(a % 4) + 1]
    IN  (IF q < 0 THEN <<"-">> ELSE <<>>) \o DigitsOfNat(a \div 4) \o <<".">>
            \o frac \o <<"0", "0", "0", "0">>

\* snprintf(buf, n, ...): at most n - 1 characters and the terminator.
snprintf(n, text) == Take(text, n - 1)

\* INT_DIGITS = NUM_DIGITS(INT_MAX) + 1, where NUM_DIGITS(x) is
\* sizeof(STRINGIFY(x)) - 1 and STRINGIFY(x) is #x.  The argument of
\* NUM_DIGITS is macro-expanded before it reaches STRINGIFY, so the
\* literal is the text of INT_MAX, "2147483647", of 10 characters.
INT_DIGITS == 11

\* DBL_DIGITS = 3 + DBL_MANT_DIG - DBL_MIN_EXP = 3 + 53 + 1021.
DBL_DIGITS == 1077

B_settings_set_int(m, s, key, value, al) ==
    B_settings_set_string(m, s, key, snprintf(CONFIG_VALUE_LENGTH, FormatInt(value)), al)

U_settings_set_int(m, s, key, value, al) ==
    U_settings_set_string(m, s, key, snprintf(INT_DIGITS, FormatInt(value)), al)

settings_set_int(v, m, s, key, value, al) ==
    IF v = "bounded"
    THEN B_settings_set_int(m, s, key, value, al)
    ELSE U_settings_set_int(m, s, key, value, al)

B_settings_set_float(m, s, key, value, al) ==
    B_settings_set_string(m, s, key, snprintf(CONFIG_VALUE_LENGTH, FormatFloat(value)), al)

U_settings_set_float(m, s, key, value, al) ==
    U_settings_set_string(m, s, key, snprintf(DBL_DIGITS, FormatFloat(value)), al)

settings_set_float(v, m, s, key, value, al) ==
    IF v = "bounded"
    THEN B_settings_set_float(m, s, key, value, al)
    ELSE U_settings_set_float(m, s, key, value, al)

\* ------------------------------------------------------------------------
\* Typed getters: atoi and atof of the stored text.
\* ------------------------------------------------------------------------
IsDigit(c) == c \in {"0", "1", "2", "3", "4", "5", "6", "7", "8", "9"}

DigitVal(c) == CHOOSE d \in 0..9 : Digit(d) = c

\* The text after its leading whitespace.
RECURSIVE SkipSpace(_)
SkipSpace(t) ==
    IF t # <<>> /\ isspace(t[1]) THEN SkipSpace(Tail(t)) ELSE t

\* The number of digits the text starts with.
RECURSIVE NumDigits(_)
NumDigits(t) ==
    IF t # <<>> /\ IsDigit(t[1]) THEN 1 + NumDigits(Tail(t)) ELSE 0

\* The value of the digits the text starts with, taken with sign sg (the
\* sum is built with the sign, so that the digits of INT_MIN do not leave
\* the int range on the way).
RECURSIVE AccDigits(_, _, _)
AccDigits(t, acc, sg) ==
    IF t # <<>> /\ IsDigit(t[1])
    THEN AccDigits(Tail(t), (acc * 10) + (sg * DigitVal(t[1])), sg)
    ELSE acc

\* The text after an optional sign.
Unsigned(u) == IF u # <<>> /\ u[1] \in {"-", "+"} THEN Tail(u) ELSE u

SignOf(u) == IF u # <<>> /\ u[1] = "-" THEN 0 - 1 ELSE 1

\* atoi(str): whitespace, an optional sign, then the longest run of
\* digits; 0 when there is no digit.  atoi(NULL) reads through a null
\* pointer.
atoi(str) ==
    IF str = NULL THEN CRASH
    ELSE AccDigits(Unsigned(SkipSpace(str)), 0, SignOf(SkipSpace(str)))

\* atof(str), as a number of quarters like the argument of FormatFloat:
\* whitespace, an optional sign, digits, and after a '.' the decimals, of
\* which the first two are kept (every text that FormatFloat writes has a
\* multiple of 0.25 there; exponents do not occur in the texts of the
\* model).
atof(str) ==
    IF str = NULL THEN CRASH
    ELSE LET u == SkipSpace(str)
             w == Unsigned(u)
             n == NumDigits(w)
             rest == Drop(w, n)
             dec == IF rest # <<>> /\ rest[1] = "."
                    THEN Take(Take(Tail(rest), NumDigits(Tail(rest))) \o <<"0", "0">>, 2)
                    ELSE <<"0", "0">>
         IN  SignOf(u) * ((AccDigits(w, 0, 1) * 4) + (AccDigits(dec, 0, 1) \div 25))

settings_get_int(v, m, s, key, default_value) ==
    LET pair == find_pair(v, m, s, key)
    IN  IF pair # NIL THEN atoi(m.heap[pair].value) ELSE default_value

settings_get_float(v, m, s, key, default_value) ==
    LET pair == find_pair(v, m, s, key)
    IN  IF pair # NIL THEN atof(m.heap[pair].value) ELSE default_value

\* ------------------------------------------------------------------------
\* Files.  A file is the sequence of its characters; NOFILE is a path that
\* fopen cannot open.
\* ------------------------------------------------------------------------
NOFILE == <<"NOFILE">>

\* Position of the first c in s, 0 when there is none (strchr).
strchr(s, c) ==
    IF \E i \in 1..Len(s) : s[i] = c
    THEN CHOOSE i \in 1..Len(s) : s[i] = c /\ \A j \in 1..(i - 1) : s[j] # c
    ELSE 0

\* fgets(buf, n, f) with `rest` left to read: the characters stored, up to
\* and including the first newline, at most n - 1 of them.  (The caller
\* tests rest = <<>> for the NULL that fgets returns at end of file.)
fgets(rest, n) ==
    LET lim == Min(n - 1, Len(rest))
        nl == strchr(Take(rest, lim), "\n")
    IN  IF nl > 0 THEN Take(rest, nl) ELSE Take(rest, lim)

\* What the stack holds where a buffer was never written: the text of an
\* earlier use of the same bytes.
StackText == {<<"a">>, UNINIT}

\* The two parts of a line that holds '=', as settings_load passes them to
\* settings_set_string: the set of results the statements can have.
\*   key_len = p - line, val_len = strlen(p + 1);
\*   strncpy(key, line, key_len); key[key_len - 1] = '\0';  trim(key);
\*   strncpy(val, p + 1, val_len); val[val_len - 1] = '\0'; trim(val);
\* strncpy stores no terminator here, so key is the first key_len - 1
\* characters of the left part and val the first val_len - 1 of the right.
\* When a length is 0, the index length - 1 is SIZE_MAX: the store goes
\* outside the buffer and the buffer itself was never written (and has no
\* element at all as the variable-length array of the unbounded variant).
\* That is undefined; a build faults or goes on with what the stack holds.
SplitLine(line) ==
    LET p == strchr(line, "=")
        key_len == p - 1
        val_len == strlen(line) - p
        key0 == IF key_len = 0 THEN {CRASH} \cup StackText
                ELSE {SubSeq(line, 1, key_len - 1)}
        val0 == IF val_len = 0 THEN {CRASH} \cup StackText
                ELSE {SubSeq(line, p + 1, p + val_len - 1)}
        key1 == UNION {IF k = CRASH THEN {CRASH} ELSE trim(k) : k \in key0}
        val1 == UNION {IF w = CRASH THEN {CRASH} ELSE trim(w) : w \in val0}
    IN  {[key |-> k, val |-> w] : k \in key1, w \in val1}

\* The stores that the split of a line makes into the buffers key and
\* val: each with the buffer, the index and the number of elements of the
\* buffer (CONFIG_LINE_LENGTH in the bounded variant, key_len and val_len,
\* the sizes of the variable-length arrays, in the unbounded one).
\* strncpy writes the indices below the length, and the terminator goes
\* to length - 1, computed in size_t: for the length 0 that is SIZE_MAX,
\* written -1 here (its value modulo 2^w for every width w).
SplitWrites(v, line) ==
    LET p == strchr(line, "=")
        key_len == p - 1
        val_len == strlen(line) - p
        ksize == IF v = "bounded" THEN CONFIG_LINE_LENGTH ELSE key_len
        vsize == IF v = "bounded" THEN CONFIG_LINE_LENGTH ELSE val_len
    IN  {[buf |-> "key", index |-> i, size |-> ksize] : i \in 0..(key_len - 1)}
            \cup {[buf |-> "key", index |-> key_len - 1, size |-> ksize]}
            \cup {[buf |-> "val", index |-> i, size |-> vsize] : i \in 0..(val_len - 1)}
            \cup {[buf |-> "val", index |-> val_len - 1, size |-> vsize]}

\* Mutant of LoadLine: a line whose key the store already holds is skipped.
M_LoadLine(v, m, line, al) ==
    IF strchr(line, "=") = 0
    THEN {[m |-> m, al |-> al, crashed |-> FALSE]}
    ELSE {IF kv.key = CRASH \/ kv.val = CRASH
          THEN [m |-> m, al |-> al, crashed |-> TRUE]
          ELSE IF find_pair(v, m, TRUE, kv.key) # NIL
          THEN [m |-> m, al |-> al, crashed |-> FALSE]
          ELSE LET r == settings_set_string(v, m, TRUE, kv.key, kv.val, al)
               IN  [m |-> r.m, al |-> r.al, crashed |-> FALSE]
          : kv \in SplitLine(line)}

\* The body of the loop of settings_load for one line that was read.
LoadLine(v, m, line, al) ==
    IF strchr(line, "=") = 0
    THEN {[m |-> m, al |-> al, crashed |-> FALSE]}
    ELSE {IF kv.key = CRASH \/ kv.val = CRASH
          THEN [m |-> m, al |-> al, crashed |-> TRUE]
          ELSE LET r == settings_set_string(v, m, TRUE, kv.key, kv.val, al)
               IN  [m |-> r.m, al |-> r.al, crashed |-> FALSE]
          : kv \in SplitLine(line)}

\* Mutant of B_load_loop: the loop ends at the first line without '='.
RECURSIVE M_B_load_loop(_, _, _)
M_B_load_loop(m, rest, al) ==
    IF rest = <<>> \/ strchr(fgets(rest, CONFIG_LINE_LENGTH), "=") = 0
    THEN {[m |-> m, al |-> al, crashed |-> FALSE]}
    ELSE LET line == fgets(rest, CONFIG_LINE_LENGTH)
         IN  UNION {IF o.crashed THEN {o}
                    ELSE M_B_load_loop(o.m, Drop(rest, Len(line)), o.al)
                    : o \in LoadLine("bounded", m, line, al)}

\* ---- bounded variant: while (fgets(line, CONFIG_LINE_LENGTH, f)) ... ----
RECURSIVE B_load_loop(_, _, _)
B_load_loop(m, rest, al) ==
    IF rest = <<>>
    THEN {[m |-> m, al |-> al, crashed |-> FALSE]}
    ELSE LET line == fgets(rest, CONFIG_LINE_LENGTH)
         IN  UNION {IF o.crashed THEN {o}
                    ELSE B_load_loop(o.m, Drop(rest, Len(line)), o.al)
                    : o \in LoadLine("bounded", m, line, al)}

\* ---- unbounded variant: while ((line = get_line(f)) != NULL) ... --------
\* The loop of get_line, entered with buf holding what was read so far.
RECURSIVE U_get_line_grow(_, _, _, _)
U_get_line_grow(buf, rest, size, al) ==
    IF strchr(buf, "\n") # 0
    THEN {[line |-> Take(buf, size - 1), rest |-> rest, al |-> al]}
    ELSE LET r == memory_realloc(al)
         IN  IF ~r.ok
             THEN \* buf is NULL now and fgets is given NULL + len: at end
                  \* of file fgets may return NULL without a store, with
                  \* characters to read it stores through the pointer.
                  IF rest = <<>>
                  THEN {[line |-> NULL, rest |-> rest, al |-> r.al],
                        [line |-> CRASH, rest |-> rest, al |-> r.al]}
                  ELSE {[line |-> CRASH, rest |-> rest, al |-> r.al]}
             ELSE IF rest = <<>>
             THEN {[line |-> buf, rest |-> rest, al |-> r.al]}
             ELSE LET chunk == fgets(rest, (size + BUFSIZ) - Len(buf))
                  IN  U_get_line_grow(buf \o chunk, Drop(rest, Len(chunk)),
                                      size + BUFSIZ, r.al)

\* get_line(f): the line (NULL at end of file or without memory), what is
\* left to read, and the allocator.
U_get_line(rest, al) ==
    LET a == memory_malloc(al)
    IN  IF ~a.ok \/ rest = <<>>
        THEN {[line |-> NULL, rest |-> rest, al |-> a.al]}
        ELSE LET buf == fgets(rest, BUFSIZ)
             IN  U_get_line_grow(buf, Drop(rest, Len(buf)), BUFSIZ, a.al)

RECURSIVE U_load_loop(_, _, _)
U_load_loop(m, rest, al) ==
    UNION {IF g.line = CRASH THEN {[m |-> m, al |-> g.al, crashed |-> TRUE]}
           ELSE IF g.line = NULL THEN {[m |-> m, al |-> g.al, crashed |-> FALSE]}
           ELSE UNION {IF o.crashed THEN {o} ELSE U_load_loop(o.m, g.rest, o.al)
                       : o \in LoadLine("unbounded", m, g.line, g.al)}
           : g \in U_get_line(rest, al)}

\* settings_load(settings, path): path is NULL or names `file`.
settings_load(v, m, s, path, file, al) ==
    IF ~s \/ path = NULL \/ file = NOFILE
    THEN {[ret |-> 0, m |-> m, al |-> al, crashed |-> FALSE]}
    ELSE {[ret |-> 1, m |-> o.m, al |-> o.al, crashed |-> o.crashed]
          : o \in IF v = "bounded" THEN B_load_loop(m, file, al)
                  ELSE U_load_loop(m, file, al)}

\* fprintf("%s") of a char pointer: passing NULL is undefined; a C library
\* prints "(null)" or faults.
printf_s(str) ==
    IF str = NULL THEN {CRASH, <<"(", "n", "u", "l", "l", ")">>} ELSE {str}

\* The text the loop of settings_save writes from `pair` on.
RECURSIVE SaveFrom(_, _)
SaveFrom(heap, pair) ==
    IF pair = NIL THEN {<<>>}
    ELSE {IF k = CRASH \/ w = CRASH \/ t = CRASH THEN CRASH
          ELSE k \o <<" ", "=", " ">> \o w \o <<"\n">> \o t
          : k \in printf_s(heap[pair].key),
            w \in printf_s(heap[pair].value),
            t \in SaveFrom(heap, heap[pair].next)}

\* Mutant of settings_save: the file is opened for writing before the
\* arguments are looked at.
M_settings_save(m, s, path, openok, file) ==
    IF ~openok
    THEN {[ret |-> 0, file |-> file, crashed |-> FALSE]}
    ELSE IF ~s \/ path = NULL
    THEN {[ret |-> 0, file |-> <<>>, crashed |-> FALSE]}
    ELSE {IF t = CRASH THEN [ret |-> 0, file |-> <<>>, crashed |-> TRUE]
          ELSE [ret |-> 1, file |-> t, crashed |-> FALSE]
          : t \in SaveFrom(m.heap, m.first)}

\* settings_save(settings, path): openok tells whether fopen(path, "wt")
\* succeeds; `file` is what the path held before.
settings_save(m, s, path, openok, file) ==
    IF ~s \/ path = NULL \/ ~openok
    THEN {[ret |-> 0, file |-> file, crashed |-> FALSE]}
    ELSE {IF t = CRASH THEN [ret |-> 0, file |-> <<>>, crashed |-> TRUE]
          ELSE [ret |-> 1, file |-> t, crashed |-> FALSE]
          : t \in SaveFrom(m.heap, m.first)}

\* ------------------------------------------------------------------------
\* The state machine: one store, called through the public interface.
\* ------------------------------------------------------------------------
VARIABLES
    variant,    \* "bounded" (src/settings.c) or "unbounded" (part_001)
    heap,       \* the struct Pair blocks: Addr -> pair or FREE
    first,      \* settings->first
    last,       \* settings->last
    file,       \* the file at PATH: what the last call that opened it
                \* left there (NOFILE when the last call opened none), or
                \* in InitLoad the text a load is about to read
    call,       \* the last call: its arguments, its result, what it met
    ncalls      \* the number of calls made so far

vars == <<variant, heap, first, last, file, call, ncalls>>

Mem == [heap |-> heap, first |-> first, last |-> last]

\* ---- the arguments the calls are made with ------------------------------
Rep(n, c) == [i \in 1..n |-> c]

KA == <<"a">>

\* The longest key and value the bounded variant accepts, and the shortest
\* it rejects.
KFit == Rep(CONFIG_KEY_LENGTH - 1, "k")

KLong == Rep(CONFIG_KEY_LENGTH, "k")

VX == <<"7">>

VFit == Rep(CONFIG_VALUE_LENGTH - 1, "v")

VLong == Rep(CONFIG_VALUE_LENGTH, "v")

PATH == <<"p">>

Arg(s, key, value) == [s |-> s, key |-> key, value |-> value]

SetStringArgs ==
    {Arg(TRUE, KA, VX), Arg(TRUE, KA, <<>>), Arg(TRUE, KA, VFit),
     Arg(TRUE, KFit, VX), Arg(TRUE, <<>>, VX),
     Arg(TRUE, KLong, VX), Arg(TRUE, KA, VLong),
     Arg(TRUE, NULL, VX), Arg(TRUE, KA, NULL), Arg(FALSE, KA, VX)}

SetIntArgs == {Arg(TRUE, KA, 7), Arg(TRUE, NULL, 7)}

SetFloatArgs == {Arg(TRUE, KA, 2), Arg(TRUE, NULL, 2)}

RemoveArgs ==
    {Arg(TRUE, KA, 0), Arg(TRUE, KFit, 0), Arg(TRUE, <<>>, 0), Arg(TRUE, KLong, 0),
     Arg(TRUE, NULL, 0), Arg(FALSE, KA, 0)}

\* The files a load finds at its path.
Files ==
    {NOFILE,
     <<"a", " ", "=", " ", "7", "\n", "k", "k", " ", "=", " ", "7", "\n">>,
     <<"q", "\n", "a", " ", "=", " ", "7">>,
     <<"k", "k", "k", " ", "=", "7", "\n", "a", "=", "7", "\n">>}

LoadArgs ==
    {[s |-> TRUE, path |-> PATH, file |-> f] : f \in Files}
        \cup {[s |-> FALSE, path |-> PATH, file |-> <<>>],
              [s |-> TRUE, path |-> NULL, file |-> <<>>]}

SaveArgs ==
    {[s |-> TRUE, path |-> PATH, openok |-> TRUE],
     [s |-> TRUE, path |-> PATH, openok |-> FALSE],
     [s |-> TRUE, path |-> NULL, openok |-> TRUE],
     [s |-> FALSE, path |-> PATH, openok |-> TRUE]}

\* The number of calls a run makes.
MaxCalls == 4

\* The calls of malloc and of realloc that are made to fail in one
\* operation (call numbers from 0): none, or one of the first MaxFailCall
\* calls of malloc, or one of the first MaxFailCall calls of realloc.
MaxFailCall == 2

Fails ==
    {[m |-> {}, r |-> {}]}
        \cup {[m |-> {i}, r |-> {}] : i \in 0..(MaxFailCall - 1)}
        \cup {[m |-> {}, r |-> {i}] : i \in 0..(MaxFailCall - 1)}

NoFail == NewAlloc({}, {})

\* Only failures that the operation meets are told apart.
Met(al) == (\A i \in al.mfail : i < al.mc) /\ (\A i \in al.rfail : i < al.rc)

\* The record of a call; pos is the position that the key had in the list
\* when the call was made (0: not in the list).
Call(op, s, key, value, num, path, ret, al, crashed) ==
    [op |-> op, s |-> s, key |-> key, value |-> value, num |-> num,
     path |-> path, ret |-> ret, pos |-> PosOf(variant, Mem, s, key),
     mfail |-> al.mfail, rfail |-> al.rfail, failed |-> al.failed,
     crashed |-> crashed]

Init ==
    /\ variant \in {"bounded", "unbounded"}
    /\ heap = [a \in Addr |-> FREE]
    /\ first = NIL
    /\ last = NIL
    /\ file = NOFILE
    /\ call = [op |-> "settings_create", s |-> TRUE, key |-> NULL, value |-> NULL,
               num |-> 0, path |-> NULL, ret |-> 1, pos |-> 0,
               mfail |-> {}, rfail |-> {}, failed |-> FALSE,
               crashed |-> FALSE]
    /\ ncalls = 0

Store(m) ==
    /\ heap' = m.heap
    /\ first' = m.first
    /\ last' = m.last

SetString ==
    /\ ~call.crashed
    /\ ncalls < MaxCalls
    /\ ncalls' = ncalls + 1
    /\ \E a \in SetStringArgs, f \in Fails :
         LET r == settings_set_string(variant, Mem, a.s, a.key, a.value, NewAlloc(f.m, f.r))
         IN  /\ Met(r.al)
             /\ Store(r.m)
             /\ call' = Call("settings_set_string", a.s, a.key, a.value, 0, NULL,
                             r.ret, r.al, FALSE)
    /\ file' = NOFILE
    /\ UNCHANGED variant

SetInt ==
    /\ ~call.crashed
    /\ ncalls < MaxCalls
    /\ ncalls' = ncalls + 1
    /\ \E a \in SetIntArgs :
         LET r == settings_set_int(variant, Mem, a.s, a.key, a.value, NoFail)
         IN  /\ Store(r.m)
             /\ call' = Call("settings_set_int", a.s, a.key, NULL, a.value, NULL,
                             r.ret, r.al, FALSE)
    /\ file' = NOFILE
    /\ UNCHANGED variant

SetFloat ==
    /\ ~call.crashed
    /\ ncalls < MaxCalls
    /\ ncalls' = ncalls + 1
    /\ \E a \in SetFloatArgs :
         LET r == settings_set_float(variant, Mem, a.s, a.key, a.value, NoFail)
         IN  /\ Store(r.m)
             /\ call' = Call("settings_set_float", a.s, a.key, NULL, a.value, NULL,
                             r.ret, r.al, FALSE)
    /\ file' = NOFILE
    /\ UNCHANGED variant

Remove ==
    /\ ~call.crashed
    /\ ncalls < MaxCalls
    /\ ncalls' = ncalls + 1
    /\ \E a \in RemoveArgs :
         LET r == settings_remove(variant, Mem, a.s, a.key)
         IN  /\ Store(r.m)
             /\ call' = Call("settings_remove", a.s, a.key, NULL, 0, NULL,
                             r.ret, NoFail, FALSE)
    /\ file' = NOFILE
    /\ UNCHANGED variant

Load ==
    /\ ~call.crashed
    /\ ncalls < MaxCalls
    /\ ncalls' = ncalls + 1
    /\ \E a \in LoadArgs, f \in Fails :
         \E o \in settings_load(variant, Mem, a.s, a.path, a.file, NewAlloc(f.m, f.r)) :
             /\ Met(o.al)
             /\ Store(o.m)
             /\ file' = a.file
             /\ call' = Call("settings_load", a.s, NULL, NULL, 0, a.path,
                             o.ret, o.al, o.crashed)
    /\ UNCHANGED variant

Save ==
    /\ ~call.crashed
    /\ ncalls < MaxCalls
    /\ ncalls' = ncalls + 1
    /\ \E a \in SaveArgs :
         \E o \in settings_save(Mem, a.s, a.path, a.openok, file) :
             /\ file' = o.file
             /\ call' = Call("settings_save", a.s, NULL, NULL, 0, a.path,
                             o.ret, NoFail, o.crashed)
    /\ UNCHANGED <<variant, heap, first, last>>

Next ==
    \/ SetString
    \/ SetInt
    \/ SetFloat
    \/ Remove
    \/ Load
    \/ Save

Spec == Init /\ [][Next]_vars

\* ------------------------------------------------------------------------
\* Loading a file into a store that settings_create has just made.
\* ------------------------------------------------------------------------
\* The characters of the files, and the length of the longest file.
Alphabet == {"a", "b", " ", "=", "\n"}

MaxText == 5

Texts == UNION {[1..n -> Alphabet] : n \in 0..MaxText}

\* The store as settings_create leaves it: first = last = NULL.
settings_create ==
    [heap |-> [a \in Addr |-> FREE], first |-> NIL, last |-> NIL]

\* The file at PATH is any text; the store is new.
InitLoad ==
    /\ variant \in {"bounded", "unbounded"}
    /\ heap = settings_create.heap
    /\ first = settings_create.first
    /\ last = settings_create.last
    /\ file \in Texts
    /\ call = [op |-> "settings_create", s |-> TRUE, key |-> NULL, value |-> NULL,
               num |-> 0, path |-> NULL, ret |-> 1, pos |-> 0,
               mfail |-> {}, rfail |-> {}, failed |-> FALSE,
               crashed |-> FALSE]
    /\ ncalls = 0

\* settings_load(settings, PATH) with every allocation succeeding.
LoadText ==
    /\ ~call.crashed
    /\ ncalls = 0
    /\ ncalls' = 1
    /\ \E o \in settings_load(variant, Mem, TRUE, PATH, file, NoFail) :
         /\ Store(o.m)
         /\ call' = Call("settings_load", TRUE, NULL, NULL, 0, PATH,
                         o.ret, o.al, o.crashed)
    /\ UNCHANGED <<variant, file>>

NextLoad == LoadText

SpecLoad == InitLoad /\ [][NextLoad]_vars

\* ------------------------------------------------------------------------
\* Saving a store and loading the file into a new store.
\* ------------------------------------------------------------------------
\* Keys and values without '=' and newline: empty, plain, and with
\* whitespace at an end.
RTKeys == {KA, <<>>, <<"b">>, <<" ", "a">>}

RTValues == {VX, <<>>, <<"7", " ">>}

SetStringRT ==
    /\ ~call.crashed
    /\ ncalls < MaxCalls
    /\ ncalls' = ncalls + 1
    /\ \E k \in RTKeys, w \in RTValues :
         LET r == settings_set_string(variant, Mem, TRUE, k, w, NoFail)
         IN  /\ Store(r.m)
             /\ call' = Call("settings_set_string", TRUE, k, w, 0, NULL,
                             r.ret, r.al, FALSE)
    /\ file' = NOFILE
    /\ UNCHANGED variant

\* s = settings_create(); settings_load(s, PATH), on the file that the
\* settings_save before it wrote.
LoadFresh ==
    /\ ~call.crashed
    /\ ncalls < MaxCalls
    /\ call.op = "settings_save" /\ call.ret = 1
    /\ ncalls' = ncalls + 1
    /\ \E o \in settings_load(variant, settings_create, TRUE, PATH, file, NoFail) :
         /\ Store(o.m)
         /\ call' = Call("settings_load", TRUE, NULL, NULL, 0, PATH,
                         o.ret, o.al, o.crashed)
    /\ UNCHANGED <<variant, file>>

NextRT ==
    \/ SetStringRT
    \/ Save
    \/ LoadFresh

SpecRT == Init /\ [][NextRT]_vars

\* ------------------------------------------------------------------------
\* Loading files of several lines into a store that holds pairs.
\* ------------------------------------------------------------------------
\* The lines of the files: two values for one key, a second key, a line
\* without '=', and a key that the bounded variant rejects.
FileLines ==
    {<<"a", " ", "=", " ", "7", "\n">>,
     <<"a", " ", "=", " ", "8", "\n">>,
     <<"b", " ", "=", " ", "7", "\n">>,
     <<"q", "\n">>,
     <<"k", "k", "k", " ", "=", " ", "7", "\n">>}

\* The number of lines of the longest file.
MaxLines == 3

RECURSIVE Concat(_)
Concat(ls) == IF ls = <<>> THEN <<>> ELSE Head(ls) \o Concat(Tail(ls))

LineFiles == {Concat(ls) : ls \in UNION {[1..n -> FileLines] : n \in 0..MaxLines}}

\* The pairs the store holds before it loads a file.
SetStringAB ==
    /\ ~call.crashed
    /\ ncalls < MaxCalls
    /\ call.op # "settings_load"
    /\ ncalls' = ncalls + 1
    /\ \E k \in {KA, <<"b">>}, w \in {VX, <<"9">>} :
         LET r == settings_set_string(variant, Mem, TRUE, k, w, NoFail)
         IN  /\ Store(r.m)
             /\ call' = Call("settings_set_string", TRUE, k, w, 0, NULL,
                             r.ret, r.al, FALSE)
    /\ file' = NOFILE
    /\ UNCHANGED variant

\* settings_load(settings, PATH) on a file of such lines, with and without
\* a failing allocation; the load is the last call of the run.
LoadLines ==
    /\ ~call.crashed
    /\ ncalls < MaxCalls
    /\ call.op # "settings_load"
    /\ ncalls' = ncalls + 1
    /\ \E f \in LineFiles, x \in Fails :
         \E o \in settings_load(variant, Mem, TRUE, PATH, f, NewAlloc(x.m, x.r)) :
             /\ Met(o.al)
             /\ Store(o.m)
             /\ file' = f
             /\ call' = Call("settings_load", TRUE, NULL, NULL, 0, PATH,
                             o.ret, o.al, o.crashed)
    /\ UNCHANGED variant

NextLines ==
    \/ SetStringAB
    \/ LoadLines

SpecLines == Init /\ [][NextLines]_vars

\* ========================================================================
\* Claims about the store under Spec
\* ========================================================================
\* A default no call stores.
D == <<"D">>

\* The key is the key of some pair of the list.
InStore(m, key) == \E i \in 1..Len(Pairs(m)) : Pairs(m)[i].key = key

IsSet(c) == c.op = "settings_set_string"

\* C1: in every reachable state, whatever calls of set_string, set_int,
\* remove and load were made and whether they succeeded, no two pairs of
\* the list have keys that are equal byte for byte.
C1_UniqueKeys ==
    \A i, j \in 1..Len(Pairs(Mem)) :
        (i # j /\ Pairs(Mem)[i].key # NULL) => Pairs(Mem)[i].key # Pairs(Mem)[j].key

\* C1 witness: three pairs, and the last call successfully set the key of
\* the first of them again.
C1_Witness ==
    /\ IsSet(call) /\ call.ret = 1 /\ call.pos = 1
    /\ Len(Pairs(Mem)) = 3
    /\ Pairs(Mem)[1].key = call.key

\* The step is a call of set_string, set_int or set_float on key k that
\* succeeded, a remove of k that succeeded, or a load.
Touches(c, k) ==
    \/ c.op = "settings_load"
    \/ /\ c.op \in {"settings_set_string", "settings_set_int",
                    "settings_set_float", "settings_remove"}
       /\ c.key = k
       /\ c.ret = 1

\* C2 (as claimed): a successful set_string(k, v) makes get_string(k, d)
\* return v for every default d, and the value a key got from its last
\* successful set stays what get_string returns until the key is set
\* successfully again or removed.
C2_ReadYourWrite ==
    [][/\ (IsSet(call') /\ call'.ret = 1)
            => \A d \in {D, NULL} :
                 settings_get_string(variant, Mem', TRUE, call'.key, d) = call'.value
       /\ \A k \in {KA, KFit, <<>>, KLong} :
            (InStore(Mem, k) /\ ~Touches(call', k) /\ ~call'.crashed)
                => settings_get_string(variant, Mem', TRUE, k, D)
                     = settings_get_string(variant, Mem, TRUE, k, D)
      ]_vars

\* C3: a successful set_string of a key of the list changes the value of
\* that pair and nothing else; of a key that is not in the list, it adds
\* one pair at the end and changes nothing else.
C3_SetKeepsOrder ==
    [][(IsSet(call') /\ call'.ret = 1)
          => LET P == Pairs(Mem)
                 Q == Pairs(Mem')
                 new == [key |-> call'.key, value |-> call'.value]
             IN  IF InStore(Mem, call'.key)
                 THEN /\ Len(Q) = Len(P)
                      /\ Chain(Mem') = Chain(Mem)
                      /\ \A i \in 1..Len(P) :
                            Q[i] = IF P[i].key = call'.key THEN new ELSE P[i]
                 ELSE /\ Q = Append(P, new)
                      /\ SubSeq(Chain(Mem'), 1, Len(P)) = Chain(Mem)
      ]_vars

\* C3 witness: the value of the middle pair of three was replaced.
C3_Witness ==
    /\ IsSet(call) /\ call.ret = 1 /\ call.pos = 2
    /\ Len(Pairs(Mem)) = 3
    /\ Pairs(Mem)[2] = [key |-> call.key, value |-> call.value]

\* C4: remove succeeds exactly when the store is given and the key is in
\* it; after a success get_string of the key returns the default and a
\* second remove of the key fails; a remove that fails changes nothing.
C4_Remove ==
    [][call'.op = "settings_remove"
          => /\ call'.ret = 1 <=> (call'.s /\ call'.key # NULL /\ InStore(Mem, call'.key))
             /\ call'.ret = 1 =>
                   /\ settings_get_string(variant, Mem', TRUE, call'.key, D) = D
                   /\ settings_remove(variant, Mem', TRUE, call'.key).ret = 0
             /\ call'.ret = 0 => Mem' = Mem
      ]_vars

\* C4 witness: a key was removed from a store that keeps other pairs.
C4_Witness ==
    /\ call.op = "settings_remove" /\ call.ret = 1
    /\ Len(Pairs(Mem)) = 2

\* s without its i-th element.
Without(s, i) == SubSeq(s, 1, i - 1) \o SubSeq(s, i + 1, Len(s))

\* C5: a successful remove takes the pair of the key out of the list and
\* leaves the other pairs, their keys, values and order as they were;
\* first and last are then the first and last pair that remain, NULL when
\* none remains.
C5_RemoveKeepsRest ==
    [][(call'.op = "settings_remove" /\ call'.ret = 1)
          => LET c == Chain(Mem)
                 i == CHOOSE n \in 1..Len(c) : Mem.heap[c[n]].key = call'.key
                 rest == Without(c, i)
             IN  /\ Chain(Mem') = rest
                 /\ Pairs(Mem') = Without(Pairs(Mem), i)
                 /\ first' = IF rest = <<>> THEN NIL ELSE rest[1]
                 /\ last' = IF rest = <<>> THEN NIL ELSE rest[Len(rest)]
      ]_vars

\* C5 witness: the middle pair of three was removed.
C5_Witness ==
    /\ call.op = "settings_remove" /\ call.ret = 1 /\ call.pos = 2
    /\ Len(Pairs(Mem)) = 2

\* C6 (as claimed): in the unbounded variant a set_string in which an
\* allocation fails returns failure and leaves the store as it was, every
\* pair with a key and a value.
C6_AllocFailureKeepsStore ==
    [][(variant = "unbounded" /\ IsSet(call') /\ call'.failed)
          => /\ call'.ret = 0
             /\ Mem' = Mem
             /\ \A i \in 1..Len(Pairs(Mem')) :
                   Pairs(Mem')[i].key # NULL /\ Pairs(Mem')[i].value # NULL
      ]_vars

TooLong(key, value) ==
    strlen(key) >= CONFIG_KEY_LENGTH \/ strlen(value) >= CONFIG_VALUE_LENGTH

\* C7: in the bounded variant set_string of a key or value as long as its
\* limit or longer fails and changes nothing; with both below their limits
\* it fails only when no pair can be allocated, and what it stores is the
\* key and the value given, whole; so every key and value of the list is
\* shorter than its buffer.
C7_CapacityLimit ==
    /\ [](variant = "bounded" =>
            \A i \in 1..Len(Pairs(Mem)) :
                /\ strlen(Pairs(Mem)[i].key) < CONFIG_KEY_LENGTH
                /\ strlen(Pairs(Mem)[i].value) < CONFIG_VALUE_LENGTH)
    /\ [][(variant = "bounded" /\ IsSet(call') /\ call'.s
              /\ call'.key # NULL /\ call'.value # NULL)
            => IF TooLong(call'.key, call'.value)
               THEN call'.ret = 0 /\ Mem' = Mem
               ELSE /\ call'.ret = 0 => call'.failed
                    /\ call'.ret = 1 =>
                         \E i \in 1..Len(Pairs(Mem')) :
                            Pairs(Mem')[i] = [key |-> call'.key, value |-> call'.value]
         ]_vars

\* C7 witness: the bounded variant refused a value of CONFIG_VALUE_LENGTH
\* characters for a key that has a value.
C7_Witness ==
    /\ variant = "bounded"
    /\ IsSet(call) /\ call.ret = 0 /\ call.pos > 0
    /\ strlen(call.value) = CONFIG_VALUE_LENGTH
    /\ call.value # NULL

\* C10: set_string without a store, a key or a value, and set_int and
\* set_float without a key, fail and change nothing.
C10_NullArguments ==
    [][(\/ IsSet(call') /\ (~call'.s \/ call'.key = NULL \/ call'.value = NULL)
        \/ call'.op \in {"settings_set_int", "settings_set_float"} /\ call'.key = NULL)
          => call'.ret = 0 /\ Mem' = Mem
      ]_vars

\* C10 witness: set_string was refused a null value for a key that has a
\* value.
C10_Witness ==
    /\ IsSet(call) /\ call.value = NULL /\ call.key # NULL /\ call.s
    /\ call.ret = 0 /\ call.pos > 0

\* ------------------------------------------------------------------------
\* A store that is filled, emptied and freed; the record of a call also
\* holds the blocks that the call released.
\* ------------------------------------------------------------------------
SetStringF ==
    /\ ~call.crashed
    /\ ncalls < MaxCalls
    /\ call.op # "settings_free"
    /\ ncalls' = ncalls + 1
    /\ \E k \in {KA, <<"b">>}, w \in {VX, <<"9">>} :
         LET r == settings_set_string(variant, Mem, TRUE, k, w, NoFail)
         IN  /\ Store(r.m)
             /\ call' = ("freed" :> <<>>)
                           @@ Call("settings_set_string", TRUE, k, w, 0, NULL,
                                   r.ret, r.al, FALSE)
    /\ file' = NOFILE
    /\ UNCHANGED variant

RemoveF ==
    /\ ~call.crashed
    /\ ncalls < MaxCalls
    /\ call.op # "settings_free"
    /\ ncalls' = ncalls + 1
    /\ \E k \in {KA, <<"b">>} :
         LET r == settings_remove(variant, Mem, TRUE, k)
         IN  /\ Store(r.m)
             /\ call' = ("freed" :> RemoveFrees(variant, Mem, TRUE, k))
                           @@ Call("settings_remove", TRUE, k, NULL, 0, NULL,
                                   r.ret, NoFail, FALSE)
    /\ file' = NOFILE
    /\ UNCHANGED variant

\* settings_free(settings) is the last call made with the store; it
\* returns nothing (ret is 0 in its record).
Free ==
    /\ ~call.crashed
    /\ ncalls < MaxCalls
    /\ call.op # "settings_free"
    /\ ncalls' = ncalls + 1
    /\ \E s \in BOOLEAN :
         LET r == settings_free(variant, Mem, s)
         IN  /\ Store(r.m)
             /\ call' = ("freed" :> r.freed)
                           @@ Call("settings_free", s, NULL, NULL, 0, NULL,
                                   0, NoFail, FALSE)
    /\ file' = NOFILE
    /\ UNCHANGED variant

NextFree ==
    \/ SetStringF
    \/ RemoveF
    \/ Free

SpecFree == Init /\ [][NextFree]_vars

\* ------------------------------------------------------------------------
\* A store that holds integers.
\* ------------------------------------------------------------------------
INT_MAX == 2147483647

INT_MIN == (0 - INT_MAX) - 1

\* The integers that are set: small ones, the longest texts that
\* snprintf is given, and the ends of int.
IntValues == {0, 0 - 7, 1264, 0 - 999999999, 0 - 1000000000, INT_MAX, INT_MIN}

SetIntV ==
    /\ ~call.crashed
    /\ ncalls < MaxCalls
    /\ ncalls' = ncalls + 1
    /\ \E k \in {KA, <<"b">>}, n \in IntValues :
         LET r == settings_set_int(variant, Mem, TRUE, k, n, NoFail)
         IN  /\ Store(r.m)
             /\ call' = Call("settings_set_int", TRUE, k, NULL, n, NULL,
                             r.ret, r.al, FALSE)
    /\ file' = NOFILE
    /\ UNCHANGED variant

NextInt == SetIntV

SpecInt == Init /\ [][NextInt]_vars

\* ------------------------------------------------------------------------
\* The file handle of a call: how often fopen gave a handle and how often
\* fclose was called with it before the call returned.
\* ------------------------------------------------------------------------
\* Mutant of LoadHandles: the load returns without fclose when an
\* allocation failed.
M_LoadHandles(v, m, s, path, text, al) ==
    LET opened == IF s /\ path # NULL /\ text # NOFILE THEN 1 ELSE 0
    IN  {o @@ [opened |-> opened,
               closed |-> IF opened = 1 /\ ~o.crashed /\ ~o.al.failed THEN 1 ELSE 0]
         : o \in settings_load(v, m, s, path, text, al)}

\* settings_load: fopen after the argument test, fclose after the loop;
\* a run that faults in the loop never reaches fclose.
LoadHandles(v, m, s, path, text, al) ==
    LET opened == IF s /\ path # NULL /\ text # NOFILE THEN 1 ELSE 0
    IN  {o @@ [opened |-> opened,
               closed |-> IF opened = 1 /\ ~o.crashed THEN 1 ELSE 0]
         : o \in settings_load(v, m, s, path, text, al)}

\* settings_save: the same around the loop that writes the pairs.
SaveHandles(m, s, path, openok, text) ==
    LET opened == IF s /\ path # NULL /\ openok THEN 1 ELSE 0
    IN  {o @@ [opened |-> opened,
               closed |-> IF opened = 1 /\ ~o.crashed THEN 1 ELSE 0]
         : o \in settings_save(m, s, path, openok, text)}

LoadIO ==
    /\ ~call.crashed
    /\ ncalls < MaxCalls
    /\ call.op # "settings_load"
    /\ ncalls' = ncalls + 1
    /\ \E a \in {[s |-> TRUE, path |-> PATH, file |-> f] : f \in LineFiles \cup {NOFILE}}
                  \cup {[s |-> FALSE, path |-> PATH, file |-> <<>>],
                        [s |-> TRUE, path |-> NULL, file |-> <<>>]},
          x \in Fails :
         \E o \in LoadHandles(variant, Mem, a.s, a.path, a.file, NewAlloc(x.m, x.r)) :
             /\ Met(o.al)
             /\ Store(o.m)
             /\ file' = a.file
             /\ call' = [opened |-> o.opened, closed |-> o.closed]
                           @@ Call("settings_load", a.s, NULL, NULL, 0, a.path,
                                   o.ret, o.al, o.crashed)
    /\ UNCHANGED variant

SaveIO ==
    /\ ~call.crashed
    /\ ncalls < MaxCalls
    /\ call.op # "settings_load"
    /\ ncalls' = ncalls + 1
    /\ \E a \in SaveArgs :
         \E o \in SaveHandles(Mem, a.s, a.path, a.openok, file) :
             /\ file' = o.file
             /\ call' = [opened |-> o.opened, closed |-> o.closed]
                           @@ Call("settings_save", a.s, NULL, NULL, 0, a.path,
                                   o.ret, NoFail, o.crashed)
    /\ UNCHANGED <<variant, heap, first, last>>

NextIO ==
    \/ SetStringAB
    \/ LoadIO
    \/ SaveIO

SpecIO == Init /\ [][NextIO]_vars

\* ------------------------------------------------------------------------
\* trim called on a string: `file` holds the string before the call, and
\* the record of the call what the string holds after it.
\* ------------------------------------------------------------------------
TrimAlphabet == {"a", "b", " ", "\t"}

\* The length of the longest string that is trimmed.
MaxTrim == 3

TrimTexts == UNION {[1..n -> TrimAlphabet] : n \in 0..MaxTrim} \cup {NULL}

InitTrim ==
    /\ variant \in {"bounded", "unbounded"}
    /\ heap = [a \in Addr |-> FREE]
    /\ first = NIL
    /\ last = NIL
    /\ file \in TrimTexts
    /\ call = [op |-> "settings_create", s |-> TRUE, key |-> NULL, value |-> NULL,
               num |-> 0, path |-> NULL, ret |-> 1, pos |-> 0,
               mfail |-> {}, rfail |-> {}, failed |-> FALSE,
               crashed |-> FALSE]
    /\ ncalls = 0

Trim ==
    /\ call.op = "settings_create"
    /\ \E r \in trim(file) :
         call' = [call EXCEPT !.op = "trim", !.key = file, !.value = r,
                              !.crashed = (r = CRASH)]
    /\ ncalls' = ncalls + 1
    /\ UNCHANGED <<variant, heap, first, last, file>>

NextTrim == Trim

SpecTrim == InitTrim /\ [][NextTrim]_vars

\* ------------------------------------------------------------------------
\* Loading a file whose one line is longer than the line buffer.
\* ------------------------------------------------------------------------
\* The first CONFIG_LINE_LENGTH - 1 characters of the line: a key and a
\* value, a key and a value followed by spaces, and no '=' at all.
LongHeads ==
    {<<"a", " ", "=">> \o Rep(CONFIG_LINE_LENGTH - 6, " ") \o <<"7", "x">>,
     <<"a", " ", "=", " ", "7">> \o Rep(CONFIG_LINE_LENGTH - 6, " "),
     Rep(CONFIG_LINE_LENGTH - 1, "q")}

\* The characters of the line after them, up to the end of the line.
LongTails ==
    {<<"b", " ", "=", " ", "8", "\n">>, <<"z", "z", "\n">>, <<"\n">>}

LongFiles == {h \o t : h \in LongHeads, t \in LongTails}

LoadLong ==
    /\ ~call.crashed
    /\ ncalls < MaxCalls
    /\ call.op # "settings_load"
    /\ ncalls' = ncalls + 1
    /\ \E f \in LongFiles :
         \E o \in settings_load(variant, Mem, TRUE, PATH, f, NoFail) :
             /\ Store(o.m)
             /\ file' = f
             /\ call' = Call("settings_load", TRUE, NULL, NULL, 0, PATH,
                             o.ret, o.al, o.crashed)
    /\ UNCHANGED variant

NextLong ==
    \/ SetStringAB
    \/ LoadLong

SpecLong == Init /\ [][NextLong]_vars

\* ------------------------------------------------------------------------
\* A store whose values are texts that are and that are not numbers.
\* ------------------------------------------------------------------------
\* No text, letters, digits after whitespace, a sign and digits followed
\* by a letter, a plus sign, a sign alone, letters before digits.
IntTexts ==
    {<<>>, <<"a", "b">>, <<" ", "\t", "1", "2">>, <<"-", "5", "x">>,
     <<"+", "0", "7">>, <<"-">>, <<"x", "1">>}

SetText ==
    /\ ~call.crashed
    /\ ncalls < MaxCalls
    /\ ncalls' = ncalls + 1
    /\ \E k \in {KA, <<"b">>}, w \in IntTexts,
          f \in {[m |-> {}, r |-> {}], [m |-> {}, r |-> {1}]} :
         LET r == settings_set_string(variant, Mem, TRUE, k, w, NewAlloc(f.m, f.r))
         IN  /\ Met(r.al)
             /\ Store(r.m)
             /\ call' = Call("settings_set_string", TRUE, k, w, 0, NULL,
                             r.ret, r.al, FALSE)
    /\ file' = NOFILE
    /\ UNCHANGED variant

NextParse == SetText

SpecParse == Init /\ [][NextParse]_vars

\* ------------------------------------------------------------------------
\* The capacities of the key and value buffers of the unbounded variant.
\* The record of a call also holds the capacity of every buffer after the
\* call (cap) and the stores the call made into buffers (writes: index
\* and capacity of the buffer).
\* ------------------------------------------------------------------------
\* Mutant of ResizeCap: no room for the terminator.
M_ResizeCap(cap, array, size) ==
    IF array = NULL \/ strlen(array) <= size + 1 THEN size ELSE cap

\* resize(array, size): the capacity of the buffer it returns, when the
\* buffer had capacity cap and realloc succeeds.
ResizeCap(cap, array, size) ==
    IF array = NULL \/ strlen(array) <= size + 1 THEN size + 1 ELSE cap

\* resize: array[size - 1] = '\0' after size += 1, when it reallocated.
ResizeWrites(cap, array, size) ==
    IF array = NULL \/ strlen(array) <= size + 1
    THEN {[index |-> size, size |-> cap]}
    ELSE {}

\* copy_pair: strncpy of strlen(src) + 1 bytes and the terminator at
\* strlen(src), into a buffer of capacity cap.
CopyWrites(cap, src) == {[index |-> i, size |-> cap] : i \in 0..strlen(src)}

\* Values of several lengths: each is set after shorter and longer ones.
CapValues == {<<>>, <<"7">>, <<"7", "7", "7">>, Rep(7, "7")}

InitCap ==
    /\ variant = "unbounded"
    /\ heap = [a \in Addr |-> FREE]
    /\ first = NIL
    /\ last = NIL
    /\ file = NOFILE
    /\ call = [op |-> "settings_create", s |-> TRUE, key |-> NULL, value |-> NULL,
               num |-> 0, path |-> NULL, ret |-> 1, pos |-> 0,
               mfail |-> {}, rfail |-> {}, failed |-> FALSE,
               crashed |-> FALSE,
               cap |-> [a \in Addr |-> [key |-> 0, value |-> 0]],
               writes |-> {}]
    /\ ncalls = 0

SetStringCap ==
    /\ ncalls < MaxCalls
    /\ ncalls' = ncalls + 1
    /\ \E k \in {KA, <<"b">>}, w \in CapValues :
         LET pair == find_pair("unbounded", Mem, TRUE, k)
             r == U_settings_set_string(Mem, TRUE, k, w, NoFail)
             at == IF pair # NIL THEN pair ELSE find_pair("unbounded", r.m, TRUE, k)
             oldk == IF pair # NIL THEN heap[pair].key ELSE NULL
             oldw == IF pair # NIL THEN heap[pair].value ELSE NULL
             kc == ResizeCap(call.cap[at].key, oldk, strlen(k))
             wc == ResizeCap(call.cap[at].value, oldw, strlen(w))
         IN  /\ Store(r.m)
             /\ call' = [cap |-> [call.cap EXCEPT ![at] = [key |-> kc, value |-> wc]],
                         writes |-> ResizeWrites(kc, oldk, strlen(k))
                                       \cup ResizeWrites(wc, oldw, strlen(w))
                                       \cup CopyWrites(kc, k) \cup CopyWrites(wc, w)]
                           @@ Call("settings_set_string", TRUE, k, w, 0, NULL,
                                   r.ret, r.al, FALSE)
    /\ file' = NOFILE
    /\ UNCHANGED variant

NextCap == SetStringCap

SpecCap == InitCap /\ [][NextCap]_vars

\* ------------------------------------------------------------------------
\* The line buffers of a load of the unbounded variant: the record of the
\* call also holds how many buffers get_line allocated and how many of
\* them were given to memory_free before the load returned.
\* ------------------------------------------------------------------------
\* The loop of settings_load with the count of the buffers.  get_line
\* allocates one buffer when its malloc succeeds (realloc keeps it the
\* same allocation); the loop frees the line at the end of its body; the
\* get_line that returns NULL frees nothing.
RECURSIVE U_load_buffers(_, _, _, _, _)
U_load_buffers(m, rest, al, allocated, freed) ==
    LET got == allocated + (IF memory_malloc(al).ok THEN 1 ELSE 0)
    IN  UNION {IF g.line = CRASH
               THEN {[m |-> m, al |-> g.al, crashed |-> TRUE,
                      allocated |-> got, freed |-> freed]}
               ELSE IF g.line = NULL
               THEN {[m |-> m, al |-> g.al, crashed |-> FALSE,
                      allocated |-> got, freed |-> freed]}
               ELSE UNION {IF o.crashed
                           THEN {o @@ [allocated |-> got, freed |-> freed]}
                           ELSE U_load_buffers(o.m, g.rest, o.al, got, freed + 1)
                           : o \in LoadLine("unbounded", m, g.line, g.al)}
               : g \in U_get_line(rest, al)}

LoadBuffers ==
    /\ ~call.crashed
    /\ ncalls < MaxCalls
    /\ call.op # "settings_load"
    /\ ncalls' = ncalls + 1
    /\ \E f \in LineFiles, x \in Fails :
         \E o \in IF variant = "unbounded"
                  THEN U_load_buffers(Mem, f, NewAlloc(x.m, x.r), 0, 0)
                  ELSE {b @@ [allocated |-> 0, freed |-> 0]
                        : b \in B_load_loop(Mem, f, NewAlloc(x.m, x.r))} :
             /\ Met(o.al)
             /\ Store(o.m)
             /\ file' = f
             /\ call' = [allocated |-> o.allocated, freed |-> o.freed]
                           @@ Call("settings_load", TRUE, NULL, NULL, 0, PATH,
                                   1, o.al, o.crashed)
    /\ UNCHANGED variant

NextBuf ==
    \/ SetStringAB
    \/ LoadBuffers

SpecBuf == Init /\ [][NextBuf]_vars

\* ------------------------------------------------------------------------
\* The getters and save called on a store that holds texts.
\* ------------------------------------------------------------------------
\* Mutant of find_pair_mem: the pair that was found becomes the first.
M_find_pair_mem(v, m, s, key) ==
    LET pair == find_pair(v, m, s, key)
    IN  IF pair = NIL \/ pair = m.first THEN m
        ELSE LET u == Unlink(m, pair)
             IN  [heap |-> [u.heap EXCEPT ![pair] = [m.heap[pair] EXCEPT !.prev = NIL,
                                                                     !.next = u.first],
                                          ![u.first].prev = pair],
                  first |-> pair, last |-> u.last]

\* The memory after find_pair(settings, key): the loop assigns only its
\* local pointer, and the getters that call it assign nothing.
find_pair_mem(v, m, s, key) == m

GetString ==
    /\ ~call.crashed
    /\ ncalls < MaxCalls
    /\ ncalls' = ncalls + 1
    /\ \E k \in {KA, <<"b">>, <<>>, NULL}, s \in BOOLEAN :
         /\ Store(find_pair_mem(variant, Mem, s, k))
         /\ call' = Call("settings_get_string", s, k, NULL, 0, NULL,
                         settings_get_string(variant, Mem, s, k, NULL), NoFail, FALSE)
    /\ file' = NOFILE
    /\ UNCHANGED variant

GetInt ==
    /\ ~call.crashed
    /\ ncalls < MaxCalls
    /\ ncalls' = ncalls + 1
    /\ \E k \in {KA, <<"b">>, <<>>, NULL}, s \in BOOLEAN :
         LET pair == find_pair(variant, Mem, s, k)
             fault == pair # NIL /\ heap[pair].value = NULL
         IN  /\ Store(find_pair_mem(variant, Mem, s, k))
             /\ call' = Call("settings_get_int", s, k, NULL, 0, NULL,
                             IF fault THEN 0 ELSE settings_get_int(variant, Mem, s, k, 9999),
                             NoFail, fault)
    /\ file' = NOFILE
    /\ UNCHANGED variant

GetFloat ==
    /\ ~call.crashed
    /\ ncalls < MaxCalls
    /\ ncalls' = ncalls + 1
    /\ \E k \in {KA, <<"b">>, <<>>, NULL}, s \in BOOLEAN :
         LET pair == find_pair(variant, Mem, s, k)
             fault == pair # NIL /\ heap[pair].value = NULL
         IN  /\ Store(find_pair_mem(variant, Mem, s, k))
             /\ call' = Call("settings_get_float", s, k, NULL, 0, NULL,
                             IF fault THEN 0 ELSE settings_get_float(variant, Mem, s, k, 9999),
                             NoFail, fault)
    /\ file' = NOFILE
    /\ UNCHANGED variant

NextRead ==
    \/ SetText
    \/ GetString
    \/ GetInt
    \/ GetFloat
    \/ Save

SpecRead == Init /\ [][NextRead]_vars

\* ========================================================================
\* Claims about the getters
\* ========================================================================
\* The keys the getters are asked for.
QueryKeys == {KA, KFit, KLong, <<>>, <<"b">>, NULL}

\* C11: get_string answers with the default it was given, and get_int and
\* get_float with theirs, whenever the store is null, the key is null, or
\* no pair of the store has the key (it was never set, or it was removed).
C11_DefaultFallback ==
    \A k \in QueryKeys, s \in BOOLEAN :
        (~s \/ k = NULL \/ ~InStore(Mem, k)) =>
            /\ \A d \in {D, NULL, <<>>} :
                   settings_get_string(variant, Mem, s, k, d) = d
            /\ \A d \in {0, 9999, 0 - 1} :
                   /\ settings_get_int(variant, Mem, s, k, d) = d
                   /\ settings_get_float(variant, Mem, s, k, d) = d

\* C11 witness: the key of the last call was in the store, the call removed
\* it, other pairs remain, and get_string answers with the default.
C11_Witness ==
    /\ call.op = "settings_remove" /\ call.ret = 1 /\ call.pos > 0
    /\ Len(Pairs(Mem)) > 0
    /\ settings_get_string(variant, Mem, TRUE, call.key, D) = D

\* The integer that the digits ds write in decimal.
RECURSIVE DecimalValue(_)
DecimalValue(ds) ==
    IF ds = <<>> THEN 0
    ELSE (10 * DecimalValue(SubSeq(ds, 1, Len(ds) - 1))) + DigitVal(ds[Len(ds)])

\* The value of the longest prefix of t, after its leading whitespace,
\* that is an optional sign and digits; 0 when there is no digit.
PrefixValue(t) ==
    LET ws == CHOOSE n \in 0..Len(t) :
                  /\ \A i \in 1..n : isspace(t[i])
                  /\ n < Len(t) => ~isspace(t[n + 1])
        u == SubSeq(t, ws + 1, Len(t))
        signed == u # <<>> /\ u[1] \in {"+", "-"}
        w == IF signed THEN Tail(u) ELSE u
        nd == CHOOSE n \in 0..Len(w) :
                  /\ \A i \in 1..n : IsDigit(w[i])
                  /\ n < Len(w) => ~IsDigit(w[n + 1])
        val == DecimalValue(SubSeq(w, 1, nd))
    IN  IF signed /\ u[1] = "-" THEN 0 - val ELSE val

\* C25: for every key that a pair holds, settings_get_int gives the value
\* of the signed decimal prefix of the pair's text, 0 when the text has
\* none, whatever the default; it gives the default for the keys that no
\* pair holds.
C25_PermissiveInt ==
    \A k \in QueryKeys, d \in {0, 9999, 0 - 1} :
        LET pair == find_pair(variant, Mem, TRUE, k)
        IN  IF pair = NIL
            THEN settings_get_int(variant, Mem, TRUE, k, d) = d
            ELSE /\ heap[pair].value # NULL
                 /\ settings_get_int(variant, Mem, TRUE, k, d)
                        = PrefixValue(heap[pair].value)

\* C30: a call of settings_get_string, settings_get_int,
\* settings_get_float or settings_save, with any arguments and whatever
\* it returns, leaves the memory of the store as it was: the same pairs
\* with the same keys, values and links, the same first and last.
C30_ReadOnly ==
    [][call'.op \in {"settings_get_string", "settings_get_int",
                     "settings_get_float", "settings_save"}
          => Mem' = Mem /\ Pairs(Mem') = Pairs(Mem)
      ]_vars

\* C30 witness: settings_get_int found the second of two pairs and
\* returned its number; the two pairs are in the store.
C30_Witness ==
    /\ call.op = "settings_get_int" /\ call.pos = 2 /\ call.ret = 0 - 5
    /\ Len(Pairs(Mem)) = 2

\* ========================================================================
\* Claims about files
\* ========================================================================
\* The characters of a string.
Chars(t) == {t[i] : i \in 1..Len(t)}

\* t without its leading and trailing whitespace.
Strip(t) ==
    LET ix == {i \in 1..Len(t) : ~isspace(t[i])}
    IN  IF ix = {} THEN <<>>
        ELSE SubSeq(t, CHOOSE i \in ix : \A j \in ix : i <= j,
                       CHOOSE i \in ix : \A j \in ix : j <= i)

\* The key-to-value mapping of a store.
Mapping(m) == {<<Pairs(m)[i].key, Pairs(m)[i].value>> : i \in 1..Len(Pairs(m))}

\* C8 (as claimed, on the stores whose keys and values have no whitespace
\* at either end, so that trimming cannot change them): when a store whose
\* keys and values hold no '=' and no newline has been saved, loading the
\* file into a new store completes, succeeds, and gives the same
\* key-to-value mapping.
C8_RoundTrip ==
    [][(/\ call.op = "settings_save" /\ call.ret = 1
        /\ call'.op = "settings_load"
        /\ \A kv \in Mapping(Mem) :
             /\ kv[1] # NULL /\ kv[2] # NULL
             /\ Chars(kv[1]) \cap {"=", "\n"} = {}
             /\ Chars(kv[2]) \cap {"=", "\n"} = {}
             /\ Strip(kv[1]) = kv[1] /\ Strip(kv[2]) = kv[2])
          => /\ ~call'.crashed
             /\ call'.ret = 1
             /\ Mapping(Mem') = Mapping(Mem)
      ]_vars

\* A file of one line that holds '=': the only newline, if any, ends it.
OneLine(t) ==
    /\ strchr(t, "=") # 0
    /\ strchr(t, "\n") \in {0, Len(t)}

\* The line of a one-line file, without its terminator.
LineBody(t) == IF t[Len(t)] = "\n" THEN Take(t, Len(t) - 1) ELSE t

\* C9 (as claimed, on files of one line, and in the bounded variant on keys
\* and values that fit): after a new store has loaded a line that holds
\* '=', the store holds one pair: its key is the text before the first '='
\* and its value the text after it without the line terminator, both
\* without their leading and trailing whitespace.
C9_LineSplit ==
    (call.op = "settings_load" /\ OneLine(file)) =>
        LET p == strchr(file, "=")
            k == Strip(SubSeq(LineBody(file), 1, p - 1))
            w == Strip(SubSeq(LineBody(file), p + 1, Len(LineBody(file))))
        IN  (variant = "bounded" =>
                strlen(k) < CONFIG_KEY_LENGTH /\ strlen(w) < CONFIG_VALUE_LENGTH)
              => /\ ~call.crashed
                 /\ Pairs(Mem) = <<[key |-> k, value |-> w]>>

\* C15: load and save return 0 when the store is NULL, when the path is
\* NULL and when the file cannot be opened, whatever the store holds and
\* whichever allocation would fail; the load leaves the store as it was,
\* and the save leaves the store and the file as they were.
C15_FailBeforeIO ==
    [][/\ \A a \in LoadArgs, f \in Fails :
             (~a.s \/ a.path = NULL \/ a.file = NOFILE)
                => \A o \in settings_load(variant, Mem, a.s, a.path, a.file,
                                          NewAlloc(f.m, f.r)) :
                       o.ret = 0 /\ o.m = Mem /\ ~o.crashed
       /\ \A a \in SaveArgs :
             (~a.s \/ a.path = NULL \/ ~a.openok)
                => \A o \in settings_save(Mem, a.s, a.path, a.openok, file) :
                       o.ret = 0 /\ o.file = file /\ ~o.crashed
       /\ (call'.op = "settings_load"
              /\ (~call'.s \/ call'.path = NULL \/ file' = NOFILE))
             => call'.ret = 0 /\ Mem' = Mem /\ ~call'.crashed
       /\ (call'.op = "settings_save" /\ (~call'.s \/ call'.path = NULL))
             => call'.ret = 0 /\ Mem' = Mem /\ file' = file /\ ~call'.crashed
       /\ (call'.op = "settings_save" /\ call'.ret = 0 /\ ~call'.crashed)
             => Mem' = Mem /\ file' = file
      ]_vars

\* C15 witness: a save without a store failed on a store that holds pairs,
\* and the file that an earlier call left at the path has its text.
C15_Witness ==
    /\ call.op = "settings_save" /\ ~call.s /\ call.ret = 0
    /\ first # NIL
    /\ file \notin {NOFILE, <<>>}

\* The text of one line "<key> = <value>\n" per pair of ps, in order.
RECURSIVE LinesFor(_)
LinesFor(ps) ==
    IF ps = <<>> THEN <<>>
    ELSE Head(ps).key \o <<" ", "=", " ">> \o Head(ps).value \o <<"\n">>
             \o LinesFor(Tail(ps))

\* C16: after a save that returned success, every pair of the store holds
\* a key and a value, and the file is the text of one line
\* "<key> = <value>\n" per pair, in the order of the list, and nothing
\* else (the empty text for the empty store); the store is as it was.
C16_SaveOutput ==
    [][(call'.op = "settings_save" /\ call'.ret = 1)
          => /\ Mem' = Mem
             /\ \A i \in 1..Len(Pairs(Mem)) :
                   Pairs(Mem)[i].key # NULL /\ Pairs(Mem)[i].value # NULL
             /\ file' = LinesFor(Pairs(Mem))
      ]_vars

\* C20: a settings_set_string with the empty key, a value and no failed
\* allocation returns 1; the list then holds one pair with the empty key,
\* settings_get_string finds its value under "", and what every non-empty
\* key gives is as before.  A settings_set_string with an accepted key,
\* the empty value and no failed allocation returns 1, and
\* settings_get_string then gives the empty string, not the default.
C20_EmptyStrings ==
    [][/\ (/\ call'.op = "settings_set_string" /\ call'.s /\ ~call'.failed
           /\ call'.key = <<>> /\ call'.value # NULL)
             => /\ call'.ret = 1
                /\ Cardinality({i \in 1..Len(Pairs(Mem')) : Pairs(Mem')[i].key = <<>>}) = 1
                /\ settings_get_string(variant, Mem', TRUE, <<>>, D) = call'.value
                /\ \A k \in QueryKeys \ {<<>>, NULL} :
                      settings_get_string(variant, Mem', TRUE, k, D)
                          = settings_get_string(variant, Mem, TRUE, k, D)
       /\ (/\ call'.op = "settings_set_string" /\ call'.s /\ ~call'.failed
           /\ call'.value = <<>> /\ call'.key # NULL
           /\ variant = "bounded" => strlen(call'.key) < CONFIG_KEY_LENGTH)
             => /\ call'.ret = 1
                /\ settings_get_string(variant, Mem', TRUE, call'.key, D) = <<>>
                /\ settings_get_string(variant, Mem', TRUE, call'.key, D) # D
      ]_vars

\* C20 witness: the empty key, already in the list, was set again; the
\* list holds it next to the key "a", whose value is the empty string.
C20_Witness ==
    /\ call.op = "settings_set_string" /\ call.key = <<>> /\ call.ret = 1
    /\ call.pos > 0
    /\ InStore(Mem, <<>>) /\ InStore(Mem, KA)
    /\ settings_get_string(variant, Mem, TRUE, <<>>, D) = VX
    /\ settings_get_string(variant, Mem, TRUE, KA, D) = <<>>

\* ========================================================================
\* Claims about files of several lines
\* ========================================================================
\* The lines of a text, each with its terminator.
RECURSIVE LinesOf(_)
LinesOf(t) ==
    IF t = <<>> THEN <<>>
    ELSE LET n == strchr(t, "\n")
             l == IF n = 0 THEN t ELSE Take(t, n)
         IN  <<l>> \o LinesOf(Drop(t, Len(l)))

HasEq(l) == strchr(l, "=") # 0

\* The key and the value that a line "key = value" stands for.
LineKey(l) == Strip(SubSeq(l, 1, strchr(l, "=") - 1))

LineValue(l) == Strip(SubSeq(l, strchr(l, "=") + 1, Len(l)))

\* The sequence of pairs with key k set to w: in place when a pair has the
\* key, at the end otherwise.
Upsert(ps, k, w) ==
    IF \E i \in 1..Len(ps) : ps[i].key = k
    THEN [i \in 1..Len(ps) |-> IF ps[i].key = k THEN [key |-> k, value |-> w] ELSE ps[i]]
    ELSE Append(ps, [key |-> k, value |-> w])

\* The pairs after the lines ls were taken in, one after the other.
RECURSIVE Apply(_, _)
Apply(ps, ls) ==
    IF ls = <<>> THEN ps
    ELSE Apply(IF HasEq(Head(ls)) THEN Upsert(ps, LineKey(Head(ls)), LineValue(Head(ls)))
               ELSE ps,
               Tail(ls))

\* The variant takes the key and the value of the line.
Accepts(v, l) ==
    v = "bounded" =>
        strlen(LineKey(l)) < CONFIG_KEY_LENGTH /\ strlen(LineValue(l)) < CONFIG_VALUE_LENGTH

\* C12: when load has read a file whose lines it can all insert and no
\* allocation failed, every pair that was in the store is at its old
\* position, with its old value unless the file names its key; every new
\* key stands after them in the order of its first line; and every key of
\* the file has the value of its last line.
C12_LoadDuplicates ==
    [][(/\ call'.op = "settings_load" /\ call'.ret = 1
        /\ ~call'.crashed /\ ~call'.failed
        /\ \A i \in 1..Len(LinesOf(file')) :
              HasEq(LinesOf(file')[i]) => Accepts(variant, LinesOf(file')[i]))
          => Pairs(Mem') = Apply(Pairs(Mem), LinesOf(file'))
      ]_vars

\* C12 witness: the store held b; the file set a twice; a stands after b
\* with the value of its last line.
C12_Witness ==
    /\ call.op = "settings_load" /\ call.ret = 1 /\ ~call.failed
    /\ file = <<"a", " ", "=", " ", "7", "\n", "a", " ", "=", " ", "8", "\n">>
    /\ Pairs(Mem) = <<[key |-> <<"b">>, value |-> <<"9">>], [key |-> KA, value |-> <<"8">>]>>

\* The text without its lines that hold no '='.
RECURSIVE KeyLines(_)
KeyLines(ls) ==
    IF ls = <<>> THEN <<>>
    ELSE (IF HasEq(Head(ls)) THEN <<Head(ls)>> ELSE <<>>) \o KeyLines(Tail(ls))

\* C13: a load that met no failing allocation returns success; when no
\* line of the file holds '=' it leaves the store as it was; and for every
\* file it leaves the store as the load of the same file without the lines
\* that hold no '=' leaves it, so the lines after such a line are read.
C13_LinesWithoutEq ==
    [][(call'.op = "settings_load" /\ ~call'.crashed /\ ~call'.failed)
          => /\ call'.ret = 1
             /\ KeyLines(LinesOf(file')) = <<>> => Mem' = Mem
             /\ Mem' \in {o.m : o \in settings_load(variant, Mem, TRUE, PATH,
                                                    Concat(KeyLines(LinesOf(file'))),
                                                    NoFail)}
      ]_vars

\* C13 witness: the file began with a line without '=', and the store got
\* the pair of the line after it.
C13_Witness ==
    /\ call.op = "settings_load" /\ call.ret = 1 /\ ~call.failed
    /\ file = <<"q", "\n", "a", " ", "=", " ", "8", "\n">>
    /\ Pairs(Mem) = <<[key |-> KA, value |-> <<"8">>]>>

\* The lines ls without those at the positions in F.
RECURSIVE DropLines(_, _, _)
DropLines(ls, F, i) ==
    IF i > Len(ls) THEN <<>>
    ELSE (IF i \in F THEN <<>> ELSE <<ls[i]>>) \o DropLines(ls, F, i + 1)

\* The positions of the key lines whose pair the variant rejects.
Rejected(v, ls) == {i \in 1..Len(ls) : HasEq(ls[i]) /\ ~Accepts(v, ls[i])}

\* C14: a load that opened the file and ran to its end returns success,
\* and the store is then the store before the load with every line taken
\* in, in turn, except the lines whose insertion failed: the lines that
\* the variant rejects and, when an allocation failed, at most one line
\* more. A failing line changes nothing and the lines after it count.
C14_BestEffortLoad ==
    [][(call'.op = "settings_load" /\ ~call'.crashed)
          => /\ call'.ret = 1
             /\ \E F \in SUBSET {i \in 1..Len(LinesOf(file')) : HasEq(LinesOf(file')[i])} :
                   /\ Rejected(variant, LinesOf(file')) \subseteq F
                   /\ Cardinality(F \ Rejected(variant, LinesOf(file')))
                         <= (IF call'.failed THEN 1 ELSE 0)
                   /\ Pairs(Mem') = Apply(Pairs(Mem), DropLines(LinesOf(file'), F, 1))
      ]_vars

\* ========================================================================
\* Claims about memory
\* ========================================================================
\* The sequence q holds every block of B once and nothing else.
EachOnce(q, B) ==
    /\ \A b \in B : Cardinality({i \in 1..Len(q) : q[i] = b}) = 1
    /\ \A i \in 1..Len(q) : q[i] \in B

\* C17: settings_free(settings) releases every block the store holds,
\* each once: the Settings object, every struct Pair and, in the unbounded
\* variant, every key and value buffer; settings_free(NULL) releases
\* nothing and leaves the memory as it was.
C17_FreeReleasesAll ==
    [][call'.op = "settings_free"
          => IF call'.s THEN EachOnce(call'.freed, Live(variant, Mem))
             ELSE call'.freed = <<>> /\ Mem' = Mem
      ]_vars

\* C18: a settings_remove that returned 1 released every block of the
\* pair that held the key, each once: the struct Pair and, in the
\* unbounded variant, its key buffer and its value buffer.
C18_RemoveReleasesPair ==
    [][(call'.op = "settings_remove" /\ call'.ret = 1)
          => EachOnce(call'.freed,
                      PairBlocks(variant, heap,
                                 find_pair(variant, Mem, call'.s, call'.key)))
      ]_vars

\* ========================================================================
\* Claims about the typed values
\* ========================================================================
\* C19: after a settings_set_int(settings, key, value) that returned 1,
\* the pair of the key holds the whole decimal text of the value, sign and
\* all digits, and settings_get_int gives the value back whatever the
\* default.
C19_IntRoundTrip ==
    (call.op = "settings_set_int" /\ call.ret = 1)
        => /\ settings_get_string(variant, Mem, TRUE, call.key, D) = FormatInt(call.num)
           /\ \A d \in {0, 9999, 0 - 1} :
                 settings_get_int(variant, Mem, TRUE, call.key, d) = call.num

\* ========================================================================
\* Claims about file handles
\* ========================================================================
\* C21: a load or a save that returned has closed the file once when it
\* had opened it, and has closed nothing when it had not: no handle stays
\* open, on the paths that fail before or at fopen, on the path through
\* the whole file, and on the path where the reading stops because a line
\* buffer cannot be allocated.
C21_HandlesReleased ==
    (call.op \in {"settings_load", "settings_save"} /\ ~call.crashed)
        => /\ call.closed = call.opened
           /\ call.opened = (IF call.ret = 1 THEN 1 ELSE 0)

\* C21 witness: a load of the unbounded variant that could not allocate a
\* line buffer returned with the file closed.
C21_Witness ==
    /\ call.op = "settings_load" /\ variant = "unbounded"
    /\ call.mfail = {0} /\ call.failed /\ ~call.crashed
    /\ file # <<>>
    /\ call.opened = 1 /\ call.closed = 1

\* ========================================================================
\* Claims about trim
\* ========================================================================
\* C22: trim of a string, the empty string and the strings of whitespace
\* included, stays inside the string and leaves it without its leading
\* and trailing whitespace (empty when nothing else was in it); trim(NULL)
\* leaves NULL.
C22_Trim ==
    call.op = "trim"
        => /\ call.value # CRASH
           /\ call.value = (IF call.key = NULL THEN NULL ELSE Strip(call.key))

\* ========================================================================
\* Claims about long lines
\* ========================================================================
\* C23: in the bounded variant the load of a file whose one line is longer
\* than CONFIG_LINE_LENGTH - 1 characters leaves the store as the load of
\* the first CONFIG_LINE_LENGTH - 1 characters of the line leaves it: the
\* characters after them add and change no pair.
C23_LineTruncation ==
    [][(/\ call'.op = "settings_load" /\ variant = "bounded" /\ ~call'.crashed
        /\ Len(LinesOf(file')) = 1
        /\ Len(file') > CONFIG_LINE_LENGTH - 1)
          => Mem' \in {o.m : o \in settings_load(variant, Mem, TRUE, PATH,
                                                 Take(file', CONFIG_LINE_LENGTH - 1),
                                                 NoFail)}
      ]_vars

\* ========================================================================
\* Claims about the line buffer of the unbounded variant
\* ========================================================================
\* The allocation that failed in the last call was one of the line
\* buffer: the first malloc of a load is the one of get_line, and the
\* first realloc is the one of get_line when the first line does not fit
\* the first BUFSIZ bytes.
LineBufferFailed ==
    /\ call.op = "settings_load" /\ variant = "unbounded" /\ call.failed
    /\ \/ call.mfail = {0}
       \/ call.rfail = {0} /\ file # <<>> /\ Len(LinesOf(file)[1]) > BUFSIZ - 1

\* C29: when a load of the unbounded variant has returned, every line
\* buffer that get_line allocated in it was given to memory_free, the
\* buffer of the get_line that met the end of the file included.
C29_NoLineBufferLeak ==
    (call.op = "settings_load" /\ variant = "unbounded" /\ ~call.crashed)
        => call.freed = call.allocated

\* C24: a load of the unbounded variant in which the malloc or the
\* realloc of the line buffer failed passes no null pointer on to a read
\* and returns 0.
C24_LineBufferFailure ==
    LineBufferFailed => ~call.crashed /\ call.ret = 0

\* ========================================================================
\* Claims about the shape of the list
\* ========================================================================
\* The pairs met from `pair` on by following prev, at most `fuel` of them.
RECURSIVE WalkBack(_, _, _)
WalkBack(h, pair, fuel) ==
    IF pair = NIL \/ fuel = 0 THEN <<>>
    ELSE <<pair>> \o WalkBack(h, h[pair].prev, fuel - 1)

Reverse(q) == [i \in 1..Len(q) |-> q[Len(q) + 1 - i]]

\* C26: in every state that create, the setters, remove and load reach,
\* first is NULL exactly when last is NULL; otherwise first has no prev
\* and last no next, the prev of the successor of a pair is the pair,
\* following next from first ends at last without meeting a pair twice,
\* and following prev from last meets the same pairs in reverse order.
C26_ListWellFormed ==
    LET fw == Walk(heap, first, MaxPairs + 1)
        bw == WalkBack(heap, last, MaxPairs + 1)
    IN  /\ (first = NIL) <=> (last = NIL)
        /\ first # NIL => /\ heap[first].prev = NIL
                          /\ heap[last].next = NIL
                          /\ fw[Len(fw)] = last
        /\ Len(fw) <= MaxPairs
        /\ \A i, j \in 1..Len(fw) : i # j => fw[i] # fw[j]
        /\ \A i \in 1..Len(fw) :
              /\ heap[fw[i]] # FREE
              /\ heap[fw[i]].next # NIL => heap[heap[fw[i]].next].prev = fw[i]
        /\ bw = Reverse(fw)

\* C26 witness: the first of three pairs was removed; two pairs remain.
C26_Witness ==
    /\ call.op = "settings_remove" /\ call.ret = 1 /\ call.pos = 1
    /\ Len(Pairs(Mem)) = 2

\* ========================================================================
\* Claims about the split of a line
\* ========================================================================
\* C27: when load has read a file that holds a line with '=', every store
\* that the split of the first such line made into key and val went to
\* an index of the buffer: at least 0 and below the number of its
\* elements, also when '=' is the first or the last character of the line.
C27_SplitInBounds ==
    (call.op = "settings_load" /\ file # NOFILE /\ KeyLines(LinesOf(file)) # <<>>)
        => \A w \in SplitWrites(variant, KeyLines(LinesOf(file))[1]) :
               0 <= w.index /\ w.index < w.size

\* ========================================================================
\* Claims about the buffers of the unbounded variant
\* ========================================================================
\* C28: after every settings_set_string whose allocations succeeded, the
\* key buffer and the value buffer of each pair have room for the string
\* they hold and its terminator, and every store that resize and
\* copy_pair made in the call went to an index below the capacity of its
\* buffer, for values longer and shorter than the ones they replace.
C28_BufferCapacity ==
    call.op = "settings_set_string"
        => /\ \A i \in 1..Len(Chain(Mem)) :
                 LET a == Chain(Mem)[i]
                 IN  /\ call.cap[a].key >= strlen(heap[a].key) + 1
                     /\ call.cap[a].value >= strlen(heap[a].value) + 1
           /\ \A w \in call.writes : 0 <= w.index /\ w.index < w.size

\* C28 witness: a value of seven characters was replaced by the empty
\* string; resize did not reallocate, the buffer keeps its eight bytes.
C28_Witness ==
    /\ call.op = "settings_set_string" /\ call.pos = 1 /\ call.ret = 1
    /\ call.value = <<>>
    /\ heap[first].value = <<>>
    /\ call.cap[first].value = 8

====
